---- MODULE Spec2Model ----
(***************************************************************************)
(* Verification model of the multi-technique anomaly detection framework   *)
(* (scripts/STEP9_anomaly_detection_framework.py).  The ratio features,    *)
(* the z-score test and the consensus rule of                              *)
(* scripts/PHASE3_STEP4_anomaly_detection.py are the same expressions.     *)
(*                                                                         *)
(* The script is a straight-line batch pipeline.  Every numbered section   *)
(* of the script is one action; pc is the position of the script.          *)
(*                                                                         *)
(* Floating point values are kept exact: a value is a record               *)
(*   [k |-> "num", n |-> numerator, d |-> denominator > 0]   (lowest terms)*)
(*   [k |-> "nan", n |-> 0, d |-> 1]       numpy NaN                        *)
(*   [k |-> "inf", n |-> 0, d |-> 1]       numpy +inf                       *)
(* (counts are non-negative, so -inf never arises).  Rounding is kept     *)
(* where it decides a comparison of the script: at a deviation that is    *)
(* exactly the threshold (see Roundings).                                  *)
(***************************************************************************)
EXTENDS Integers, Naturals, Sequences, FiniteSets, TLC

VARIABLES
    pc,                  \* position of the script
    disk,                \* the CSV files: cleaned inputs and saved results
    enrolment, biometric, demographic,      \* the loaded input tables
    features_df,         \* the master table, one row per state
    iso_forest,          \* fitted forests, by the seed they were grown from
    iso_anomalies, zscore_anomalies,        \* subset tables (copies)
    monthly_enrol, temporal_anomalies,      \* per-period series and events
    consensus_anomalies,                    \* subset table (copy)
    reports,             \* what was printed and drawn from the results
    cleaning,            \* the cleaning stage: its step, raw and cleaned tables
    runner,              \* a Phase 3 master runner and the step it waits for
    rounding             \* how a deviation at the threshold was rounded

vars == <<pc, disk, enrolment, biometric, demographic, features_df, iso_forest,
          iso_anomalies, zscore_anomalies, monthly_enrol, temporal_anomalies,
          consensus_anomalies, reports, cleaning, runner, rounding>>

\* ------------------------------------------------------------------ bounds
\* largest number of background states (states that share one input profile)
MaxBackground == 9
\* largest total of the second monthly enrolment row of the probe state
MaxSecond == 3

\* ------------------------------------------------------- program constants
contamination == 5
\* random_state=None, the constructor's default: no seed is fixed
NoSeed == -1
\* the forest constructed without random_state
UnseededState == NoSeed
random_state == 42
threshold == 3
spike_threshold == 50
ConsensusMin == 2

\* ------------------------------------------------------------ float values
NaN == [k |-> "nan", n |-> 0, d |-> 1]
Inf == [k |-> "inf", n |-> 0, d |-> 1]

Abs(x) == IF x < 0 THEN -x ELSE x

RECURSIVE Gcd(_, _)
Gcd(a, b) == IF b = 0 THEN a ELSE Gcd(b, a % b)

\* the rational n/d (d # 0) in lowest terms with a positive denominator
Rat(n, d) ==
    LET g == Gcd(Abs(n), Abs(d))
        s == IF d < 0 THEN -1 ELSE 1
    IN  [k |-> "num", n |-> (s * n) \div g, d |-> (s * d) \div g]

Num(i) == [k |-> "num", n |-> i, d |-> 1]

IsNaN(v) == v.k = "nan"
IsInf(v) == v.k = "inf"
IsFinite(v) == v.k = "num"

\* numpy true division of two non-negative columns: x/0 is inf, 0/0 is NaN
Div(a, b) ==
    IF b = 0 THEN (IF a = 0 THEN NaN ELSE Inf) ELSE Rat(a, b)

\* v * c for a non-zero integer c (inf stays inf for c > 0)
Scale(v, c) == IF IsFinite(v) THEN Rat(v.n * c, v.d) ELSE v

\* v - c for an integer c
Minus(v, c) == IF IsFinite(v) THEN Rat(v.n - c * v.d, v.d) ELSE v

\* numpy abs
FAbs(v) == IF IsFinite(v) THEN Rat(Abs(v.n), v.d) ELSE v

\* a > b as IEEE comparison: false as soon as one side is NaN
Gt(a, b) ==
    IF IsNaN(a) \/ IsNaN(b) THEN FALSE
    ELSE IF IsInf(b) THEN FALSE
    ELSE IF IsInf(a) THEN TRUE
    ELSE a.n * b.d > b.n * a.d

Lt(a, b) == Gt(b, a)

\* Series.replace([np.inf, -np.inf], 0)
ReplaceInf(v) == IF IsInf(v) THEN Num(0) ELSE v

\* ------------------------------------------------------------ input tables
\* A state is identified by its rank in the lexicographic order of the
\* state names: 1 is the probe state, 2 the second probe, 3.. the background.
\* A date is <<month, day>>.
EnrolRow(st, date, a0, a5, a18) ==
    [state |-> st, date |-> date, age_0_5 |-> a0, age_5_17 |-> a5,
     age_18_greater |-> a18,
     \* src/01_data_cleaning.py:342
     total_enrolments |-> a0 + a5 + a18]

\* the update tables are not read by period: their rows all carry one date
BioRow(st, b5, b17) ==
    [state |-> st, date |-> <<1, 1>>, bio_age_5_17 |-> b5,
     bio_age_17_ |-> b17,
     \* src/01_data_cleaning.py:345
     total_bio_updates |-> b5 + b17]

DemoRow(st, d5, d17) ==
    [state |-> st, date |-> <<1, 1>>, demo_age_5_17 |-> d5,
     demo_age_17_ |-> d17,
     \* src/01_data_cleaning.py:348
     total_demo_updates |-> d5 + d17]

\* per-state input profiles; each is a sequence of rows given as tuples
\*   enrolment: <<month, day, age_0_5, age_5_17, age_18_greater>>
\*   biometric / demographic: <<age_5_17, age_17_>>
FirstRows == {<<1, 1, c, y, a>> : c \in 0..1, y \in 0..1, a \in 0..1}
SecondRows == {<<2, 1, 0, 0, t>> : t \in 0..MaxSecond}
ProbeEnrol ==
    {<<>>} \cup {<<r>> : r \in FirstRows}
           \cup {<<r, s>> : r \in FirstRows, s \in SecondRows}
ProbeBio == {<<>>, <<<<0, 0>>>>, <<<<1, 1>>>>}
ProbeDemo == {<<>>, <<<<0, 1>>>>}

\* the second probe: absent, one row, or an observed gap (months 1 and 3)
\* whose first month is split over two days, the file not being in date
\* order
SecondEnrol ==
    {<<>>, <<<<1, 1, 0, 0, 1>>>>,
     <<<<1, 1, 1, 0, 0>>, <<3, 1, 0, 0, 4>>, <<1, 2, 0, 1, 0>>>>}

\* the background profile
BackgroundEnrol == <<<<1, 1, 0, 0, 1>>>>

RECURSIVE Concat(_)
Concat(ss) == IF ss = <<>> THEN <<>> ELSE Head(ss) \o Concat(Tail(ss))

EnrolTable(profile) ==
    Concat([st \in 1..Len(profile) |->
              [i \in 1..Len(profile[st]) |->
                 LET r == profile[st][i]
                 IN  EnrolRow(st, <<r[1], r[2]>>, r[3], r[4], r[5])]])

BioTable(profile) ==
    Concat([st \in 1..Len(profile) |->
              [i \in 1..Len(profile[st]) |->
                 BioRow(st, profile[st][i][1], profile[st][i][2])]])

DemoTable(profile) ==
    Concat([st \in 1..Len(profile) |->
              [i \in 1..Len(profile[st]) |->
                 DemoRow(st, profile[st][i][1], profile[st][i][2])]])

\* number of background states of an input: none, or MaxBackground (with
\* the probes a population of MaxBackground to MaxBackground + 2 states)
BackgroundCounts == {0, MaxBackground}

NoFile == <<>>
File(table) == <<table>>

\* A table is the sequence of its rows and a row holds its columns; a table
\* without rows stands for a file that has the header the cleaning stage
\* writes and nothing else.
LacksColumn(tbl, col) == tbl # <<>> /\ col \notin DOMAIN tbl[1]

\* the table without one of its columns
Drop(tbl, col) ==
    [i \in DOMAIN tbl |-> [c \in DOMAIN tbl[i] \ {col} |-> tbl[i][c]]]

\* the columns the script reads from each input file: the key and the date
\* (lines 50-52, 70, 77, 90, 208-210) and the aggregated counts (lines
\* 70-90, without the two optional ones of lines 85-88)
RequiredColumns ==
    [cleaned_enrolment |->
        {"state", "date", "age_0_5", "age_5_17", "age_18_greater",
         "total_enrolments"},
     cleaned_biometric |->
        {"state", "date", "bio_age_5_17", "bio_age_17_", "total_bio_updates"},
     cleaned_demographic |-> {"state", "date", "total_demo_updates"}]

\* one complete input: two states with enrolments, one with updates
CompleteInput ==
    [cleaned_enrolment |->
        File(EnrolTable(<<BackgroundEnrol, BackgroundEnrol>>)),
     cleaned_biometric |-> File(BioTable(<<<<<<1, 1>>>>>>)),
     cleaned_demographic |-> File(DemoTable(<<<<<<0, 1>>>>>>)),
     results |-> NoFile]

\* the same input with one file absent, or with one required column absent
\* from one file
DefectiveInputs ==
    UNION {{[CompleteInput EXCEPT ![f] = NoFile]}
              \cup {[CompleteInput EXCEPT ![f] = File(Drop(@[1], c))] :
                       c \in RequiredColumns[f]} :
           f \in DOMAIN RequiredColumns}

\* nothing printed or drawn yet: the consensus listing of step 9.5, Chart 5
\* of the framework, the summary of STEP9_SHOW_RESULTS.py and the profile
\* cards of STEP9_ADDITIONAL_visualizations.py
NoReports == [listing |-> <<>>, chart5 |-> <<>>, summary |-> <<>>,
              cards |-> <<>>]

\* the cleaning stage (src/01_data_cleaning.py) holds no table: it ended
\* before the framework started, leaving the cleaned files
NoTables == [Enrolment |-> <<>>, Biometric |-> <<>>, Demographic |-> <<>>]
CleaningOver == [pc |-> "done", raw |-> NoTables, named |-> NoTables,
                 df |-> NoTables, review |-> NoFile]

\* no master runner was started: the script runs on its own
NoRunner == [pc |-> "none"]

\* no deviation has met the threshold yet
NoRounding == "unknown"

Init ==
    /\ pc = "load"
    /\ \/ \E pe \in ProbeEnrol, pb \in ProbeBio, pd \in ProbeDemo,
             se \in SecondEnrol, nb \in BackgroundCounts :
            LET bg(x) == [i \in 1..nb |-> x]
            IN  disk = [cleaned_enrolment |->
                           File(EnrolTable(<<pe, se>> \o bg(BackgroundEnrol))),
                        cleaned_biometric |->
                           File(BioTable(<<pb, <<>>>> \o bg(<<>>))),
                        cleaned_demographic |->
                           File(DemoTable(<<pd, <<>>>> \o bg(<<>>))),
                        results |-> NoFile]
       \/ disk \in DefectiveInputs
    /\ enrolment = <<>>
    /\ biometric = <<>>
    /\ demographic = <<>>
    /\ features_df = <<>>
    /\ iso_forest = <<>>
    /\ iso_anomalies = <<>>
    /\ zscore_anomalies = <<>>
    /\ monthly_enrol = <<>>
    /\ temporal_anomalies = <<>>
    /\ consensus_anomalies = <<>>
    /\ reports = NoReports
    /\ cleaning = CleaningOver
    /\ runner = NoRunner
    /\ rounding = NoRounding

\* ------------------------------------------------------------------- load
\* a table whose dates are left as read
DatesNotConverted(tbl) == FALSE

\* lines 50-52: tbl['date'] = pd.to_datetime(tbl['date']) raises KeyError on
\* a table without the column
ToDatetimeRaises(tbl) == LacksColumn(tbl, "date")

\* lines 44-60: read the three cleaned files and convert their dates; any
\* error prints and exits
Load ==
    /\ pc = "load"
    /\ IF \/ disk.cleaned_enrolment = NoFile
          \/ disk.cleaned_biometric = NoFile
          \/ disk.cleaned_demographic = NoFile
          \/ ToDatetimeRaises(disk.cleaned_enrolment[1])
          \/ ToDatetimeRaises(disk.cleaned_biometric[1])
          \/ ToDatetimeRaises(disk.cleaned_demographic[1])
       THEN /\ pc' = "exited"
            /\ UNCHANGED <<enrolment, biometric, demographic>>
       ELSE /\ enrolment' = disk.cleaned_enrolment[1]
            /\ biometric' = disk.cleaned_biometric[1]
            /\ demographic' = disk.cleaned_demographic[1]
            /\ pc' = "features"
    /\ UNCHANGED <<reports, cleaning, runner, rounding>>
    /\ UNCHANGED <<disk, features_df, iso_forest, iso_anomalies,
                   zscore_anomalies, monthly_enrol, temporal_anomalies,
                   consensus_anomalies>>

\* ------------------------------------------------------ DataFrame helpers
\* Inside an action TLC evaluates a LET definition and an operator argument
\* again at every use.  Let binds a value once; MapIdx builds the sequence
\* <<Op(1), ..., Op(n)>> evaluating each element once.
Let(v, Body(_)) == CHOOSE r \in {Body(x) : x \in {v}} : TRUE

RECURSIVE MapIdx(_, _)
MapIdx(Op(_), n) == IF n = 0 THEN <<>> ELSE Append(MapIdx(Op, n - 1), Op(n))

RECURSIVE SumIdx(_, _)
SumIdx(Op(_), n) == IF n = 0 THEN 0 ELSE SumIdx(Op, n - 1) + Op(n)

\* the keys of a table in ascending order (groupby and merge sort their keys)
RECURSIVE SortedSeq(_)
SortedSeq(S) ==
    IF S = {} THEN <<>>
    ELSE Let(CHOOSE x \in S : \A y \in S : x <= y,
             LAMBDA m : <<m>> \o SortedSeq(S \ {m}))

States(tbl) == {tbl[i].state : i \in DOMAIN tbl}

\* the value of column col in the first row of tbl whose state is st
FirstOfRows(tbl, st, col) ==
    tbl[CHOOSE i \in DOMAIN tbl :
          tbl[i].state = st /\ \A j \in 1..(i - 1) : tbl[j].state # st][col]

\* the sum of column col over the rows of tbl whose state is st
SumRows(tbl, st, col) ==
    SumIdx(LAMBDA i : IF tbl[i].state = st THEN tbl[i][col] ELSE 0, Len(tbl))

\* tbl.groupby('state').agg({col: 'sum' for col in cols}).reset_index()
GroupBySum(tbl, cols) ==
    Let(SortedSeq(States(tbl)), LAMBDA keys :
      MapIdx(LAMBDA i :
               [c \in cols |-> SumRows(tbl, keys[i], c)] @@ [state |-> keys[i]],
             Len(keys)))

\* the value an outer merge gives a column of a table that lacks the key
Null == -1

\* the row of state st in a table that holds one row per state, or a row
\* of nulls
RowOf(tbl, cols, st) ==
    IF st \in States(tbl)
    THEN tbl[CHOOSE i \in DOMAIN tbl : tbl[i].state = st]
    ELSE [c \in cols |-> Null] @@ [state |-> st]

\* the merge that keeps the keys both tables hold (how='inner')
MergeInner(left, lcols, right, rcols) ==
    Let(SortedSeq(States(left) \cap States(right)), LAMBDA keys :
      MapIdx(LAMBDA i : RowOf(left, lcols, keys[i]) @@ RowOf(right, rcols, keys[i]),
             Len(keys)))

\* left.merge(right, on='state', how='outer'); both hold one row per state
MergeOuter(left, lcols, right, rcols) ==
    Let(SortedSeq(States(left) \cup States(right)), LAMBDA keys :
      MapIdx(LAMBDA i : RowOf(left, lcols, keys[i]) @@ RowOf(right, rcols, keys[i]),
             Len(keys)))

\* df.fillna(0)
FillNa(tbl) ==
    MapIdx(LAMBDA i :
             Let(tbl[i], LAMBDA r :
               [c \in DOMAIN r |-> IF r[c] = Null THEN 0 ELSE r[c]] @@ <<>>),
           Len(tbl))

\* a row with further columns
WithColumns(row, more) == more @@ row

\* df[df[flag]].copy()
Filter(tbl, flag) == SelectSeq(tbl, LAMBDA r : r[flag])

\* df[col]
Column(tbl, col) == MapIdx(LAMBDA i : tbl[i][col], Len(tbl))

\* --------------------------------------------- step 9.1: feature matrix
EnrolCols == {"age_0_5", "age_5_17", "age_18_greater", "total_enrolments"}
BioCols == {"bio_age_5_17", "bio_age_17_", "total_bio_updates"}
\* the cleaned demographic table has demo_age_5_17 and demo_age_17_, so of
\* the two optional columns of lines 85-88 only demo_age_5_17 is aggregated
DemographicColumns ==
    {"state", "date", "demo_age_5_17", "demo_age_17_", "total_demo_updates"}
DemoCols ==
    {"total_demo_updates"}
      \cup ({"demo_age_5_17", "demo_age_17_greater"} \cap DemographicColumns)

\* (num / den * 100).replace([np.inf, -np.inf], 0)
RatePct(num, den) == ReplaceInf(Scale(Div(num, den), 100))

DerivedFeatures(r) ==
    [bio_update_rate |-> RatePct(r.total_bio_updates, r.total_enrolments),
     demo_update_rate |-> RatePct(r.total_demo_updates, r.total_enrolments),
     child_enrol_pct |-> RatePct(r.age_0_5, r.total_enrolments),
     youth_enrol_pct |-> RatePct(r.age_5_17, r.total_enrolments),
     adult_enrol_pct |-> RatePct(r.age_18_greater, r.total_enrolments)]

FeatureMatrix(enrol, bio, demo) ==
    Let(GroupBySum(enrol, EnrolCols), LAMBDA enrol_features :
    Let(GroupBySum(bio, BioCols), LAMBDA bio_features :
    Let(GroupBySum(demo, DemoCols), LAMBDA demo_features :
    Let(MergeOuter(enrol_features, EnrolCols, bio_features, BioCols),
        LAMBDA first :
    Let(FillNa(MergeOuter(first, EnrolCols \cup BioCols, demo_features, DemoCols)),
        LAMBDA merged :
      MapIdx(LAMBDA i : WithColumns(merged[i], DerivedFeatures(merged[i])),
             Len(merged)))))))

\* tbl.groupby('state').agg({...}) raises KeyError on a table without the
\* key or without an aggregated column
GroupByRaises(tbl, cols) ==
    \E c \in {"state"} \cup cols : LacksColumn(tbl, c)

\* lines 70-110; an exception here is not caught and ends the run
PrepareFeatures ==
    /\ pc = "features"
    /\ IF \/ GroupByRaises(enrolment, EnrolCols)
          \/ GroupByRaises(biometric, BioCols)
          \/ GroupByRaises(demographic, DemoCols)
       THEN /\ pc' = "failed"
            /\ UNCHANGED features_df
       ELSE /\ features_df' = FeatureMatrix(enrolment, biometric, demographic)
            /\ pc' = "isolation_forest"
    /\ UNCHANGED <<reports, cleaning, runner, rounding>>
    /\ UNCHANGED <<disk, enrolment, biometric, demographic, iso_forest,
                   iso_anomalies, zscore_anomalies, monthly_enrol,
                   temporal_anomalies, consensus_anomalies>>

\* ------------------------------------------------------- column statistics
Plus(a, b) == Rat(a.n * b.d + b.n * a.d, a.d * b.d)
Times(a, b) == Rat(a.n * b.n, a.d * b.d)

Lcm(a, b) == (a * b) \div Gcd(a, b)

\* Op folded over <<f(1), ..., f(n)>> from base
RECURSIVE FoldIdx(_, _, _, _)
FoldIdx(Op(_, _), base, f(_), n) ==
    IF n = 0 THEN base ELSE Op(FoldIdx(Op, base, f, n - 1), f(n))

\* an integer column as float values
AsFloat(col) == MapIdx(LAMBDA i : Num(col[i]), Len(col))

HasNaN(col) == \E i \in DOMAIN col : IsNaN(col[i])
Finite(col) == SelectSeq(col, IsFinite)

\* The finite entries of a column as integers: every entry is multiplied
\* by the same positive rational, which changes no standardized deviation.
\* (NaN entries are given 0 and are never read.)
Integral(col) ==
    Let(FoldIdx(Lcm, 1, LAMBDA i : col[i].d, Len(col)), LAMBDA D :
    Let(MapIdx(LAMBDA i : IF IsFinite(col[i])
                          THEN col[i].n * (D \div col[i].d) ELSE 0, Len(col)),
        LAMBDA X :
    Let(FoldIdx(Gcd, 0, LAMBDA i : Abs(X[i]), Len(X)), LAMBDA g :
      MapIdx(LAMBDA i : IF g = 0 THEN 0 ELSE X[i] \div g, Len(X)))))

\* For every entry i of a column: with P the rows whose entry is finite,
\* n = |P|, S the sum and Q the sum of squares over P (of the integral
\* column), (x_i - mean) / std = (n x_i - S) / sqrt(n Q - S^2), std being the
\* population standard deviation (ddof = 0).  Entry i of the result is the
\* pair <<n x_i - S, n Q - S^2>>.
Deviations(c) ==
    Let(c, LAMBDA col :
    Let(Integral(col), LAMBDA Y :
    Let(<<SumIdx(LAMBDA i : IF IsFinite(col[i]) THEN 1 ELSE 0, Len(col)),
          SumIdx(LAMBDA i : Y[i], Len(col)),
          SumIdx(LAMBDA i : Y[i] * Y[i], Len(col))>>, LAMBDA m :
      MapIdx(LAMBDA i : <<m[1] * Y[i] - m[2], m[1] * m[3] - m[2] * m[2]>>,
             Len(col)))))

\* the k-th smallest (k = 1..Len) of a column of finite values
KthSmallest(col, k) ==
    col[CHOOSE i \in DOMAIN col :
          /\ Cardinality({j \in DOMAIN col : Lt(col[j], col[i])}) < k
          /\ Cardinality({j \in DOMAIN col : ~Gt(col[j], col[i])}) >= k]

\* Series.quantile(qn/qd) and np.percentile(., 100 qn/qd): NaN entries are
\* skipped, the result is interpolated linearly between the two nearest
\* order statistics, and is NaN when nothing is left
Quantile(c, qn, qd) ==
    Let(Finite(c), LAMBDA fin :
      IF fin = <<>> THEN NaN
      ELSE Let((Len(fin) - 1) * qn, LAMBDA h :
           Let(KthSmallest(fin, (h \div qd) + 1), LAMBDA lo :
             IF h % qd = 0 THEN lo
             ELSE Let(KthSmallest(fin, (h \div qd) + 2), LAMBDA hi :
                    Plus(lo, Times(Rat(h % qd, qd), Plus(hi, Scale(lo, -1))))))))

\* ------------------------------------------- step 9.2: isolation forest
feature_cols == <<"total_enrolments", "bio_update_rate", "demo_update_rate",
                  "child_enrol_pct", "youth_enrol_pct", "adult_enrol_pct">>

\* features_df[c] as a float column
FeatureColumn(tbl, c) ==
    IF c = "total_enrolments" THEN AsFloat(Column(tbl, c)) ELSE Column(tbl, c)

Sign(x) == IF x < 0 THEN -1 ELSE IF x > 0 THEN 1 ELSE 0

\* StandardScaler on one column: mean and variance ignore NaN, a NaN entry
\* stays NaN, a zero variance is replaced by scale 1.  An entry is
\* <<sign, z^2>>.
Standardize(c) ==
    Let(c, LAMBDA col :
    Let(Deviations(col), LAMBDA dv :
      MapIdx(LAMBDA i :
               IF IsNaN(col[i]) THEN <<0, NaN>>
               ELSE IF dv[i][2] = 0 THEN <<0, Num(0)>>
               ELSE <<Sign(dv[i][1]), Rat(dv[i][1] * dv[i][1], dv[i][2])>>,
             Len(col))))

\* scaler.fit_transform(features_df[feature_cols].values): one tuple of
\* standardized entries per state
ScaledMatrix(tbl) ==
    Let(MapIdx(LAMBDA f : Standardize(FeatureColumn(tbl, feature_cols[f])),
               Len(feature_cols)), LAMBDA cols :
      MapIdx(LAMBDA i : MapIdx(LAMBDA f : cols[f][i], Len(feature_cols)),
             Len(tbl)))

MatrixHasNaN(X) == \E i \in DOMAIN X : \E f \in DOMAIN X[i] : IsNaN(X[i][f][2])

\* The forest is library code and a pseudo-random function of the matrix
\* and the seed.  What is known of it: a sample's score depends on the
\* fitted trees and on the sample alone, so equal rows get equal scores, and
\* scores are negative (lower = more anomalous).  The script only compares
\* scores (the contamination quantile, the sort of step 9.5), so a score is
\* kept as its rank: -1 for the highest score, -2 for the next one, ...
\* Whether fit() accepts NaN depends on the installed scikit-learn.
ScoreLevels(n) == (0 - n)..(-1)

\* every weak order of the distinct rows of X, as one score per row
ScoreAssignments(X) ==
    Let(MapIdx(LAMBDA i : CHOOSE j \in DOMAIN X :
                            X[j] = X[i] /\ \A l \in 1..(j - 1) : X[l] # X[i],
               Len(X)), LAMBDA rep :
    Let({rep[i] : i \in DOMAIN rep}, LAMBDA reps :
      {MapIdx(LAMBDA i : Num(f[rep[i]]), Len(X)) :
         f \in {g \in [reps -> ScoreLevels(Cardinality(reps))] :
                  \A r \in reps : \A l \in (g[r] + 1)..(-1) :
                     \E q \in reps : g[q] = l}}))

\* the seeds a forest constructed with random_state = rs may grow from:
\* rs itself, or (rs = None) whatever the global generator holds
Seeds(rs) == IF rs = NoSeed THEN {41, 42} ELSE {rs}

\* the outcomes of iso_forest.fit(X_scaled) from seed; fits holds the
\* outcomes already seen (the same seed on the same matrix repeats its fit)
FitOutcomes(X, seed, fits) ==
    IF \E i \in DOMAIN fits : fits[i].seed = seed
    THEN {fits[i] : i \in {j \in DOMAIN fits : fits[j].seed = seed}}
    ELSE {[seed |-> seed, raised |-> FALSE, scores |-> s] :
             s \in ScoreAssignments(X)}
         \cup (IF MatrixHasNaN(X)
               THEN {[seed |-> seed, raised |-> TRUE, scores |-> <<>>]}
               ELSE {})

Remember(fits, fit) ==
    IF \E i \in DOMAIN fits : fits[i] = fit THEN fits ELSE Append(fits, fit)

\* the verdict given to the scores above the offset
IsoPredictionsAbove(scores) ==
    Let(Quantile(scores, contamination, 100), LAMBDA offset :
      MapIdx(LAMBDA i : Gt(scores[i], offset), Len(scores)))

\* predict(): -1 below the offset, the contamination quantile of the
\* training scores; the flag is iso_predictions == -1
IsoPredictions(scores) ==
    Let(Quantile(scores, contamination, 100), LAMBDA offset :
      MapIdx(LAMBDA i : Lt(scores[i], offset), Len(scores)))

IsolationForest ==
    /\ pc = "isolation_forest"
    /\ IF features_df = <<>>
       THEN \* StandardScaler raises ValueError on an array with 0 samples
            /\ pc' = "failed"
            /\ UNCHANGED <<features_df, iso_forest, iso_anomalies>>
       ELSE \E X_scaled \in {ScaledMatrix(features_df)} :
            \E seed \in Seeds(random_state) :
            \E fit \in FitOutcomes(X_scaled, seed, iso_forest) :
              /\ iso_forest' = Remember(iso_forest, fit)
              /\ IF fit.raised
                 THEN /\ pc' = "failed"
                      /\ UNCHANGED <<features_df, iso_anomalies>>
                 ELSE \E pred \in {IsoPredictions(fit.scores)} :
                      \E df \in {MapIdx(LAMBDA i :
                                   WithColumns(features_df[i],
                                     [iso_forest_anomaly |-> pred[i],
                                      iso_forest_score |-> fit.scores[i]]),
                                   Len(features_df))} :
                          /\ features_df' = df
                          /\ iso_anomalies' = Filter(df, "iso_forest_anomaly")
                          /\ pc' = "zscore"
    /\ UNCHANGED <<reports, cleaning, runner, rounding>>
    /\ UNCHANGED <<disk, enrolment, biometric, demographic, zscore_anomalies,
                   monthly_enrol, temporal_anomalies, consensus_anomalies>>

\* ------------------------------------------------------ step 9.3: z-score
\* np.abs(stats.zscore(column)): population standard deviation, NaN
\* propagates to the whole column, and a constant column gives 0/0 = NaN.
\* The value kept is the square of the absolute z-score, which is exact.
AbsZScore(c) ==
    Let(c, LAMBDA col :
    Let(Deviations(col), LAMBDA dv :
    Let(HasNaN(col), LAMBDA nan :
      MapIdx(LAMBDA i :
               IF nan THEN NaN
               ELSE IF dv[i][2] = 0 THEN NaN
               ELSE Rat(dv[i][1] * dv[i][1], dv[i][2]),
             Len(col)))))

\* z >= threshold in place of z > threshold
ReachesThreshold(zsq) ==
    Gt(zsq, Num(threshold * threshold)) \/ zsq = Num(threshold * threshold)

\* z > threshold for an absolute z-score kept as its square
ExceedsThreshold(zsq) == Gt(zsq, Num(threshold * threshold))

ZScoreAnomaly(r) ==
    \/ ExceedsThreshold(r.bio_rate_zscore)
    \/ ExceedsThreshold(r.demo_rate_zscore)
    \/ ExceedsThreshold(r.child_pct_zscore)
    \/ ExceedsThreshold(r.enrol_zscore)

\* The script computes the deviations in double precision.  A deviation
\* that is exactly the threshold in exact arithmetic comes out of
\* (x - mean) / std at the threshold or one rounding above it, depending on
\* the values of the column (nine regions at 0 and one at 7 give
\* 3.0000000000000004); one rounding above is kept as the exact square
\* plus a thousandth of it.  The same table rounds the same way in every
\* run; one direction is kept for the columns of a table.
JustAbove(zsq) == Rat(zsq.n * 1000 + zsq.n, zsq.d * 1000)

AtThreshold(col) == \E i \in DOMAIN col : col[i] = Num(threshold * threshold)

\* the deviations of a column as the script computes them
Computed(col, direction) ==
    MapIdx(LAMBDA i : IF direction = "up" /\ col[i] = Num(threshold * threshold)
                      THEN JustAbove(col[i]) ELSE col[i],
           Len(col))

\* the exact deviation columns of the master table
ExactZScores(tbl) ==
    [bio_rate_zscore |-> AbsZScore(Column(tbl, "bio_update_rate")),
     demo_rate_zscore |-> AbsZScore(Column(tbl, "demo_update_rate")),
     child_pct_zscore |-> AbsZScore(Column(tbl, "child_enrol_pct")),
     enrol_zscore |-> AbsZScore(AsFloat(Column(tbl, "total_enrolments")))]

\* the deviation columns as the script computes them
ComputedZScores(exact, direction) ==
    [bio_rate_zscore |-> Computed(exact.bio_rate_zscore, direction),
     demo_rate_zscore |-> Computed(exact.demo_rate_zscore, direction),
     child_pct_zscore |-> Computed(exact.child_pct_zscore, direction),
     enrol_zscore |-> Computed(exact.enrol_zscore, direction)]

\* the ways the deviations of tbl may round, given the way seen
Roundings(tbl, seen) ==
    Let(ExactZScores(tbl), LAMBDA z :
      IF seen # "unknown" THEN {seen}
      ELSE IF \E c \in DOMAIN z : AtThreshold(z[c]) THEN {"up", "down"}
      ELSE {"unknown"})

\* the deviation of the bio update rate written over the rate itself
ZScoreInPlace(tbl, direction) ==
    Let(ExactZScores(tbl), LAMBDA exact :
    Let(ComputedZScores(exact, direction), LAMBDA z :
      MapIdx(LAMBDA i :
               Let([bio_rate_zscore |-> z.bio_rate_zscore[i],
                    demo_rate_zscore |-> z.demo_rate_zscore[i],
                    child_pct_zscore |-> z.child_pct_zscore[i],
                    enrol_zscore |-> z.enrol_zscore[i]], LAMBDA zi :
                 WithColumns(tbl[i],
                             zi @@ [zscore_anomaly |-> ZScoreAnomaly(zi),
                                    bio_update_rate |-> zi.bio_rate_zscore])),
             Len(tbl))))

\* lines 165-176: the four deviation columns and the verdict
ZScoreTable(tbl, direction) ==
    Let(ExactZScores(tbl), LAMBDA exact :
    Let(ComputedZScores(exact, direction), LAMBDA z :
      MapIdx(LAMBDA i :
               Let([bio_rate_zscore |-> z.bio_rate_zscore[i],
                    demo_rate_zscore |-> z.demo_rate_zscore[i],
                    child_pct_zscore |-> z.child_pct_zscore[i],
                    enrol_zscore |-> z.enrol_zscore[i]], LAMBDA zi :
                 WithColumns(tbl[i],
                             zi @@ [zscore_anomaly |-> ZScoreAnomaly(zi)])),
             Len(tbl))))

ZScore ==
    /\ pc = "zscore"
    /\ \E direction \in Roundings(features_df, rounding) :
       \E df \in {ZScoreTable(features_df, direction)} :
           /\ features_df' = df
           /\ zscore_anomalies' = Filter(df, "zscore_anomaly")
           /\ rounding' = direction
    /\ pc' = "temporal"
    /\ UNCHANGED <<reports, cleaning, runner>>
    /\ UNCHANGED <<disk, enrolment, biometric, demographic, iso_forest,
                   iso_anomalies, monthly_enrol, temporal_anomalies,
                   consensus_anomalies>>

\* ------------------------------------------- step 9.4: temporal anomalies
\* date.dt.to_period('M'): the month of a date <<month, day>>
ToPeriodM(date) == date[1]

\* the distinct <<state, year_month>> keys, ascending (groupby sorts them)
RECURSIVE SortedKeys(_)
SortedKeys(S) ==
    IF S = {} THEN <<>>
    ELSE Let(CHOOSE x \in S : \A y \in S :
                 x[1] < y[1] \/ (x[1] = y[1] /\ x[2] <= y[2]),
             LAMBDA m : <<m>> \o SortedKeys(S \ {m}))

\* enrolment.groupby(['state', 'year_month'])['total_enrolments'].sum()
\*   .reset_index().sort_values(['state', 'year_month'])
MonthlyEnrol(enrol) ==
    Let(SortedKeys({<<enrol[i].state, enrol[i].year_month>> : i \in DOMAIN enrol}),
        LAMBDA keys :
      MapIdx(LAMBDA k :
               [state |-> keys[k][1], year_month |-> keys[k][2],
                total_enrolments |->
                   SumIdx(LAMBDA i :
                            IF /\ enrol[i].state = keys[k][1]
                               /\ enrol[i].year_month = keys[k][2]
                            THEN enrol[i].total_enrolments ELSE 0,
                          Len(enrol))],
             Len(keys)))

\* pct_change() on the whole table in place of the grouped one
PreviousRow(tbl, i) == i - 1

\* the row that precedes row i in its group of groupby('state'), 0 if none
PreviousInGroup(tbl, i) ==
    IF i > 1 /\ tbl[i - 1].state = tbl[i].state THEN i - 1 ELSE 0

\* (current / previous - 1) * 100
PctChange(previous, current) == Scale(Minus(Div(current, previous), 1), 100)

\* groupby('state')['total_enrolments'].pct_change() * 100: NaN on the
\* first row of a group
MomChange(tbl, i) ==
    Let(PreviousInGroup(tbl, i), LAMBDA p :
      IF p = 0 THEN NaN
      ELSE PctChange(tbl[p].total_enrolments, tbl[i].total_enrolments))

\* a spike test for rises only
IsRise(mom_change) == Gt(mom_change, Num(spike_threshold))

\* a spike test that takes an infinite change for a missing one
IsFiniteSpike(mom_change) ==
    IsFinite(mom_change) /\ Gt(FAbs(mom_change), Num(spike_threshold))

\* a spike test that is true of a change that is not a number:
\* not (np.abs(mom_change) <= spike_threshold)
IsNotWithin(mom_change) ==
    IsNaN(mom_change) \/ Gt(FAbs(mom_change), Num(spike_threshold))

\* np.abs(mom_change) > spike_threshold
IsSpike(mom_change) == Gt(FAbs(mom_change), Num(spike_threshold))

TemporalTable(monthly) ==
    MapIdx(LAMBDA i :
             Let(MomChange(monthly, i), LAMBDA mom :
               WithColumns(monthly[i],
                           [mom_change |-> mom, temporal_anomaly |-> IsSpike(mom)])),
           Len(monthly))

\* the state of the largest change only, in place of every state with an event
TopStateOnly(events) ==
    IF events = <<>> THEN {}
    ELSE {events[CHOOSE i \in DOMAIN events :
                   \A j \in DOMAIN events :
                      ~Gt(FAbs(events[j].mom_change), FAbs(events[i].mom_change))]
            .state}

\* features_df['state'].isin(temporal_anomalies['state'].unique())
StatesWithTemporal(events) == States(events)

\* the complement of the membership test
IsNotIn(value, values) == value \notin values

\* Series.isin(values): a boolean for every row
IsIn(value, values) == value \in values

Temporal ==
    /\ pc = "temporal"
    /\ IF LacksColumn(enrolment, "date")
       THEN \* line 208: enrolment['date'] raises KeyError
            /\ pc' = "failed"
            /\ UNCHANGED <<enrolment, monthly_enrol, temporal_anomalies,
                           features_df>>
       ELSE
       \E enrol \in {MapIdx(LAMBDA i :
                       WithColumns(enrolment[i],
                                   [year_month |-> ToPeriodM(enrolment[i].date)]),
                       Len(enrolment))} :
       \E monthly \in {TemporalTable(MonthlyEnrol(enrol))} :
       \E events \in {Filter(monthly, "temporal_anomaly")} :
         /\ enrolment' = enrol
         /\ monthly_enrol' = monthly
         /\ temporal_anomalies' = events
         /\ features_df' =
              MapIdx(LAMBDA i :
                       WithColumns(features_df[i],
                         [temporal_anomaly |->
                             IsIn(features_df[i].state,
                                  StatesWithTemporal(events))]),
                     Len(features_df))
         /\ pc' = "consensus"
    /\ UNCHANGED <<reports, cleaning, runner, rounding>>
    /\ UNCHANGED <<disk, biometric, demographic, iso_forest, iso_anomalies,
                   zscore_anomalies, consensus_anomalies>>

\* --------------------------------------------------- step 9.5: consensus
\* bool.astype(int)
AsInt(b) == IF b THEN 1 ELSE 0

\* a count that leaves the temporal verdict out
CountWithoutTemporal(r) ==
    AsInt(r.iso_forest_anomaly) + AsInt(r.zscore_anomaly)

AnomalyCount(r) ==
    AsInt(r.iso_forest_anomaly) + AsInt(r.zscore_anomaly)
      + AsInt(r.temporal_anomaly)

\* any single verdict in place of agreement
AnyVerdict(count) == count >= 1

ConsensusAnomaly(count) == count >= ConsensusMin

\* the techniques named on one line of a consensus listing
Techniques(row, temporal_name) ==
    (IF row.iso_forest_anomaly THEN <<"Isolation Forest">> ELSE <<>>)
      \o (IF row.zscore_anomaly THEN <<"Z-Score">> ELSE <<>>)
      \o (IF row.temporal_anomaly THEN <<temporal_name>> ELSE <<>>)

\* lines 261-272: for idx, row in consensus_anomalies.iterrows(): print(...)
ConsensusListing(tbl) ==
    MapIdx(LAMBDA i : [state |-> tbl[i].state,
                       anomaly_count |-> tbl[i].anomaly_count,
                       techniques |-> Techniques(tbl[i], "Time-Series")],
           Len(tbl))

Consensus ==
    /\ pc = "consensus"
    /\ \E df \in {MapIdx(LAMBDA i :
                    Let(AnomalyCount(features_df[i]), LAMBDA count :
                      WithColumns(features_df[i],
                        [anomaly_count |-> count,
                         consensus_anomaly |-> ConsensusAnomaly(count)])),
                    Len(features_df))} :
         /\ features_df' = df
         /\ consensus_anomalies' = Filter(df, "consensus_anomaly")
         /\ reports' = [reports EXCEPT
                          !.listing = ConsensusListing(
                                         Filter(df, "consensus_anomaly"))]
    /\ pc' = "characterize"
    /\ UNCHANGED <<runner, cleaning, disk, enrolment, biometric, demographic, iso_forest,
                   iso_anomalies, zscore_anomalies, monthly_enrol,
                   temporal_anomalies, rounding>>

\* -------------------------------------------- step 9.6: characterization
\* the reasons one feature contributes: value above the 0.95 quantile of
\* its column, else below the 0.05 quantile, else nothing
\* the reasons with the quantiles themselves counted as outside the band
ReasonAtOrBeyond(value, q95, q05, high, low) ==
    IF ~Lt(value, q95) THEN <<high>>
    ELSE IF ~Gt(value, q05) THEN <<low>>
    ELSE <<>>

Reason(value, q95, q05, high, low) ==
    IF Gt(value, q95) THEN <<high>>
    ELSE IF Lt(value, q05) THEN <<low>>
    ELSE <<>>

\* the join without the fallback label
JoinOnly(reasons) == reasons

\* "; ".join(reasons) if reasons else "Complex multivariate pattern".
\* A string is kept as the sequence of its "; "-separated parts, the
\* empty string being <<>>.
JoinReasons(reasons) ==
    IF reasons # <<>> THEN reasons ELSE <<"Complex multivariate pattern">>

\* the 0.95 and 0.05 quantiles of the four characterized columns
Quantiles(tbl) ==
    [c \in {"bio_update_rate", "demo_update_rate", "child_enrol_pct",
            "total_enrolments"} |->
       Let(FeatureColumn(tbl, c), LAMBDA col :
         <<Quantile(col, 95, 100), Quantile(col, 5, 100)>>)] @@ <<>>

characterize_anomaly(row, q) ==
    JoinReasons(
      Reason(row.bio_update_rate, q.bio_update_rate[1], q.bio_update_rate[2],
             "Extremely high bio update rate", "Extremely low bio update rate")
      \o Reason(row.demo_update_rate, q.demo_update_rate[1], q.demo_update_rate[2],
             "Extremely high demo update rate", "Extremely low demo update rate")
      \o Reason(row.child_enrol_pct, q.child_enrol_pct[1], q.child_enrol_pct[2],
             "Unusually high child enrolment %", "Unusually low child enrolment %")
      \o Reason(Num(row.total_enrolments), q.total_enrolments[1],
             q.total_enrolments[2],
             "Very large population", "Very small population"))

Characterize ==
    /\ pc = "characterize"
    /\ \E q \in {Quantiles(features_df)} :
         features_df' =
           MapIdx(LAMBDA i :
                    WithColumns(features_df[i],
                      [anomaly_characterization |->
                          characterize_anomaly(features_df[i], q)]),
                  Len(features_df))
    /\ pc' = "save"
    /\ UNCHANGED <<reports, cleaning, runner, rounding>>
    /\ UNCHANGED <<disk, enrolment, biometric, demographic, iso_forest,
                   iso_anomalies, zscore_anomalies, monthly_enrol,
                   temporal_anomalies, consensus_anomalies>>

\* ---------------------------------------------------------- save results
\* lines 316-320: the five result files
Save ==
    /\ pc = "save"
    /\ disk' = [disk EXCEPT !.results =
                  File([STEP9_anomaly_detection_complete |-> features_df,
                        STEP9_isolation_forest_anomalies |-> iso_anomalies,
                        STEP9_zscore_anomalies |-> zscore_anomalies,
                        STEP9_temporal_anomalies |-> temporal_anomalies,
                        STEP9_consensus_anomalies_HIGH_PRIORITY |->
                           consensus_anomalies])]
    /\ pc' = "visualize"
    /\ UNCHANGED <<reports, cleaning, runner, rounding>>
    /\ UNCHANGED <<enrolment, biometric, demographic, features_df, iso_forest,
                   iso_anomalies, zscore_anomalies, monthly_enrol,
                   temporal_anomalies, consensus_anomalies>>

\* features_df[col].value_counts().sort_index(): the values of a column,
\* ascending, each with the number of rows that hold it
ValueCounts(tbl, col) ==
    Let(SortedSeq({tbl[i][col] : i \in DOMAIN tbl}), LAMBDA levels :
      MapIdx(LAMBDA k :
               <<levels[k],
                 Cardinality({i \in DOMAIN tbl : tbl[i][col] = levels[k]})>>,
             Len(levels)))

\* line 440: the labels of the ticks 0..3 of Chart 5
ChartTickLabels == <<"0 (Normal)", "1 (Low)", "2 (Medium)", "3 (High)">>

\* lines 430-443: one bar per agreement count of the master table, at the
\* tick of that count; a bar is <<count, tick label, height>>
Chart5(tbl) ==
    Let(ValueCounts(tbl, "anomaly_count"), LAMBDA anomaly_dist :
      MapIdx(LAMBDA k : <<anomaly_dist[k][1],
                          ChartTickLabels[anomaly_dist[k][1] + 1],
                          anomaly_dist[k][2]>>,
             Len(anomaly_dist)))

\* lines 333-446: the charts read the tables and change none of them; of
\* the six charts Chart 5 is kept
CreateVisualizations ==
    /\ pc = "visualize"
    /\ pc' = "done"
    /\ reports' = [reports EXCEPT !.chart5 = Chart5(features_df)]
    /\ UNCHANGED <<runner, cleaning, disk, enrolment, biometric, demographic, features_df,
                   iso_forest, iso_anomalies, zscore_anomalies, monthly_enrol,
                   temporal_anomalies, consensus_anomalies, rounding>>

Next ==
    \/ Load
    \/ PrepareFeatures
    \/ IsolationForest
    \/ ZScore
    \/ Temporal
    \/ Consensus
    \/ Characterize
    \/ Save
    \/ CreateVisualizations

Spec == Init /\ [][Next]_vars

\* ------------------------------------------------------------ a second run
\* The script run again on the same files: a new process, so every table
\* in memory starts empty; the files stay, the earlier results included
\* until step "save" overwrites them.  A forest grown again from the same
\* seed on the same matrix is the same forest, so the fits seen stay.
Rerun ==
    /\ pc = "done"
    /\ pc' = "load"
    /\ enrolment' = <<>>
    /\ biometric' = <<>>
    /\ demographic' = <<>>
    /\ features_df' = <<>>
    /\ iso_anomalies' = <<>>
    /\ zscore_anomalies' = <<>>
    /\ monthly_enrol' = <<>>
    /\ temporal_anomalies' = <<>>
    /\ consensus_anomalies' = <<>>
    /\ UNCHANGED <<reports, cleaning, runner, rounding>>
    /\ UNCHANGED <<disk, iso_forest>>

\* the inputs of the runs that are repeated: no update rows, and at most
\* one enrolment row of the probe state
InitRerun ==
    /\ Init
    /\ disk.cleaned_biometric = File(<<>>)
    /\ disk.cleaned_demographic = File(<<>>)
    /\ \A i, j \in DOMAIN disk.cleaned_enrolment[1] :
          (disk.cleaned_enrolment[1][i].state = 1
             /\ disk.cleaned_enrolment[1][j].state = 1) => i = j

NextRerun ==
    \/ Next
    \/ Rerun

SpecRerun == InitRerun /\ [][NextRerun]_vars

\* ------------------------------------------- a run on the files reordered
\* tbl with its rows i and j exchanged
SwapRows(tbl, i, j) ==
    [k \in DOMAIN tbl |->
       IF k = i THEN tbl[j] ELSE IF k = j THEN tbl[i] ELSE tbl[k]]

\* Between two runs two rows of one input file change places; repeated,
\* this gives the rows of each file in every order.  The matrix the forest
\* is grown from holds one row per state in the order of the state names,
\* so a forest grown again from the same seed is the same forest as long as
\* the feature values are the same.
RerunPermuted ==
    /\ pc = "done"
    /\ \E f \in {"cleaned_enrolment", "cleaned_biometric",
                  "cleaned_demographic"} :
       \E i, j \in DOMAIN disk[f][1] :
          /\ i < j
          /\ disk' = [disk EXCEPT ![f] = File(SwapRows(@[1], i, j))]
    /\ pc' = "load"
    /\ enrolment' = <<>>
    /\ biometric' = <<>>
    /\ demographic' = <<>>
    /\ features_df' = <<>>
    /\ iso_anomalies' = <<>>
    /\ zscore_anomalies' = <<>>
    /\ monthly_enrol' = <<>>
    /\ temporal_anomalies' = <<>>
    /\ consensus_anomalies' = <<>>
    /\ UNCHANGED <<reports, cleaning, runner, iso_forest, rounding>>

\* the inputs of the reordered runs: two states, the first with a row in
\* each of two months, the second with an observed gap and a month split
\* over two days; update rows of both states
InitPermuted ==
    /\ pc = "load"
    /\ \E t \in 0..MaxSecond :
         disk = [cleaned_enrolment |->
                    File(EnrolTable(<<<<<<1, 1, 1, 0, 1>>, <<2, 1, 0, 0, t>>>>,
                                      <<<<1, 1, 1, 0, 0>>, <<3, 1, 0, 0, 4>>,
                                        <<1, 2, 0, 1, 0>>>>>>)),
                 cleaned_biometric |->
                    File(BioTable(<<<<<<1, 1>>, <<0, 1>>>>, <<<<0, 1>>>>>>)),
                 cleaned_demographic |->
                    File(DemoTable(<<<<<<0, 1>>>>, <<<<1, 1>>>>>>)),
                 results |-> NoFile]
    /\ enrolment = <<>>
    /\ biometric = <<>>
    /\ demographic = <<>>
    /\ features_df = <<>>
    /\ iso_forest = <<>>
    /\ iso_anomalies = <<>>
    /\ zscore_anomalies = <<>>
    /\ monthly_enrol = <<>>
    /\ temporal_anomalies = <<>>
    /\ consensus_anomalies = <<>>
    /\ reports = NoReports
    /\ cleaning = CleaningOver
    /\ runner = NoRunner
    /\ rounding = NoRounding

NextPermuted ==
    \/ Next
    \/ RerunPermuted

SpecPermuted == InitPermuted /\ [][NextPermuted]_vars

\* ------------------------------------------------------ the report scripts
\* Two scripts that read the saved result files: STEP9_SHOW_RESULTS.py and
\* STEP9_ADDITIONAL_visualizations.py.  Either can be started once the
\* files exist.

\* rows of tbl in ascending order of Key, rows of equal key in table order
SortedBy(tbl, Key(_)) ==
    Let(MapIdx(LAMBDA i :
                 Cardinality({j \in DOMAIN tbl :
                                \/ Key(tbl[j]) < Key(tbl[i])
                                \/ Key(tbl[j]) = Key(tbl[i]) /\ j < i}),
               Len(tbl)), LAMBDA before :
      MapIdx(LAMBDA p : tbl[CHOOSE i \in DOMAIN tbl : before[i] = p - 1],
             Len(tbl)))

\* features_df.nsmallest(n, 'iso_forest_score') (keep='first')
NSmallestScore(tbl, n) ==
    Let(SortedBy(tbl, LAMBDA r : r.iso_forest_score.n), LAMBDA sorted :
      SubSeq(sorted, 1, IF Len(sorted) < n THEN Len(sorted) ELSE n))

\* STEP9_SHOW_RESULTS.py line 42
risk_name(level) ==
    CASE level = 0 -> "NORMAL"
      [] level = 1 -> "LOW RISK"
      [] level = 2 -> "MEDIUM RISK"
      [] level = 3 -> "CRITICAL RISK"

\* STEP9_SHOW_RESULTS.py line 74
risk(anomaly_count) ==
    CASE anomaly_count = 0 -> "NORMAL"
      [] anomaly_count = 1 -> "LOW"
      [] anomaly_count = 2 -> "MEDIUM"
      [] anomaly_count = 3 -> "CRITICAL"

\* STEP9_SHOW_RESULTS.py lines 38-76: the risk distribution, the consensus
\* listing and the top 10 states by forest score
Summary(master, consensus) ==
    [risk_distribution |->
        Let(ValueCounts(master, "anomaly_count"), LAMBDA risk_dist :
          MapIdx(LAMBDA k : <<risk_dist[k][1], risk_name(risk_dist[k][1]),
                              risk_dist[k][2]>>,
                 Len(risk_dist))),
     consensus |->
        MapIdx(LAMBDA i : [state |-> consensus[i].state,
                           anomaly_count |-> consensus[i].anomaly_count,
                           techniques |-> Techniques(consensus[i], "Temporal")],
               Len(consensus)),
     top_10_iso |->
        Let(NSmallestScore(master, 10), LAMBDA top :
          MapIdx(LAMBDA i : [state |-> top[i].state,
                             anomaly_count |-> top[i].anomaly_count,
                             risk |-> risk(top[i].anomaly_count)],
                 Len(top)))]

ShowResults ==
    /\ disk.results # NoFile
    /\ reports' =
          [reports EXCEPT !.summary =
              Summary(disk.results[1].STEP9_anomaly_detection_complete,
                      disk.results[1].STEP9_consensus_anomalies_HIGH_PRIORITY)]
    /\ UNCHANGED <<runner, cleaning, pc, disk, enrolment, biometric, demographic, features_df,
                   iso_forest, iso_anomalies, zscore_anomalies, monthly_enrol,
                   temporal_anomalies, consensus_anomalies, rounding>>

\* STEP9_ADDITIONAL_visualizations.py lines 65-77
risk_level(anomaly_count) ==
    IF anomaly_count = 3 THEN "CRITICAL"
    ELSE IF anomaly_count = 2 THEN "HIGH"
    ELSE IF anomaly_count = 1 THEN "MEDIUM"
    ELSE "LOW"

\* STEP9_ADDITIONAL_visualizations.py lines 50-91: Chart 6, one profile
\* card for each of the 12 states of lowest forest score
ProfileCards(master) ==
    Let(NSmallestScore(master, 12), LAMBDA top_anomalies :
      MapIdx(LAMBDA i : [state |-> top_anomalies[i].state,
                         anomaly_count |-> top_anomalies[i].anomaly_count,
                         risk_level |->
                            risk_level(top_anomalies[i].anomaly_count)],
             Len(top_anomalies)))

AdditionalVisualizations ==
    /\ disk.results # NoFile
    /\ reports' =
          [reports EXCEPT !.cards =
              ProfileCards(disk.results[1].STEP9_anomaly_detection_complete)]
    /\ UNCHANGED <<runner, cleaning, pc, disk, enrolment, biometric, demographic, features_df,
                   iso_forest, iso_anomalies, zscore_anomalies, monthly_enrol,
                   temporal_anomalies, consensus_anomalies, rounding>>

NextReports ==
    \/ Next
    \/ ShowResults
    \/ AdditionalVisualizations

SpecReports == Init /\ [][NextReports]_vars

\* ------------------------------------------------------ the cleaning stage
\* src/01_data_cleaning.py reads the raw files of the three datasets, cleans
\* each with intelligent_data_cleaning and writes the three cleaned files
\* the framework reads.  Here a region is the string the raw file holds (the
\* framework above names a region by its rank among the cleaned names).

\* lines 47-57
VALID_STATES_UTS ==
    {"andhra pradesh", "arunachal pradesh", "assam", "bihar",
     "chhattisgarh", "goa", "gujarat", "haryana", "himachal pradesh",
     "jharkhand", "karnataka", "kerala", "madhya pradesh", "maharashtra",
     "manipur", "meghalaya", "mizoram", "nagaland", "odisha", "punjab",
     "rajasthan", "sikkim", "tamil nadu", "telangana", "tripura",
     "uttar pradesh", "uttarakhand", "west bengal",
     "andaman and nicobar islands", "chandigarh",
     "dadra and nagar haveli and daman and diu", "delhi",
     "jammu and kashmir", "ladakh", "lakshadweep", "puducherry"}

\* lines 62-95
STATE_NAME_CORRECTIONS ==
    "orissa" :> "odisha" @@
    "pondicherry" :> "puducherry" @@
    "uttaranchal" :> "uttarakhand" @@
    "chhatisgarh" :> "chhattisgarh" @@
    "chattisgarh" :> "chhattisgarh" @@
    "chhatisgrah" :> "chhattisgarh" @@
    "west bangal" :> "west bengal" @@
    "west bengli" :> "west bengal" @@
    "westbengal" :> "west bengal" @@
    "west  bengal" :> "west bengal" @@
    "andaman & nicobar islands" :> "andaman and nicobar islands" @@
    "jammu & kashmir" :> "jammu and kashmir" @@
    "dadra & nagar haveli" :> "dadra and nagar haveli and daman and diu" @@
    "daman & diu" :> "dadra and nagar haveli and daman and diu" @@
    "dadra and nagar haveli" :> "dadra and nagar haveli and daman and diu" @@
    "daman and diu" :> "dadra and nagar haveli and daman and diu" @@
    "the dadra and nagar haveli and daman and diu" :> "dadra and nagar haveli and daman and diu" @@
    "nct of delhi" :> "delhi" @@
    "new delhi" :> "delhi" @@
    "pondichery" :> "puducherry" @@
    "puduchery" :> "puducherry"

\* lines 100-123
CITY_TO_STATE_MAPPING ==
    "darbhanga" :> "bihar" @@
    "jaipur" :> "rajasthan" @@
    "nagpur" :> "maharashtra" @@
    "madanapalle" :> "andhra pradesh" @@
    "puttenahalli" :> "karnataka" @@
    "balanagar" :> "telangana" @@
    "raja annamalai puram" :> "tamil nadu" @@
    "bangalore" :> "karnataka" @@
    "bengaluru" :> "karnataka" @@
    "mumbai" :> "maharashtra" @@
    "chennai" :> "tamil nadu" @@
    "kolkata" :> "west bengal" @@
    "hyderabad" :> "telangana" @@
    "pune" :> "maharashtra" @@
    "ahmedabad" :> "gujarat" @@
    "lucknow" :> "uttar pradesh" @@
    "patna" :> "bihar" @@
    "bhopal" :> "madhya pradesh" @@
    "chandigarh" :> "chandigarh"

\* A cell of the raw state column: missing, or a text.
NA == [isna |-> TRUE]
Text(s) == [isna |-> FALSE, text |-> s]

\* the raw state cells met: valid names in other case and spacing, a
\* historical name, a city, a misspelling, numbers, an unrecognised word
\* and a missing value
RawStates ==
    {NA, Text("Goa"), Text(" goa "), Text("ORISSA"), Text("Jaipur"),
     Text("West  Bengal"), Text("Gujrat"), Text("100000"), Text("12.5"),
     Text("xyz")}

\* lines 149-150 and 271-272:
\* re.sub(r'\s+', ' ', str(x).lower().strip()) on the texts met
LowerStripCollapse ==
    "Goa" :> "goa" @@ " goa " :> "goa" @@ "ORISSA" :> "orissa" @@
    "Jaipur" :> "jaipur" @@ "West  Bengal" :> "west bengal" @@
    "Gujrat" :> "gujrat" @@ "100000" :> "100000" @@ "12.5" :> "12.5" @@
    "xyz" :> "xyz" @@ "North  Goa" :> "north goa"

\* line 153: state.replace(' ', '').replace('.', '').isdigit()
IsNumber(state) == state \in {"100000", "12.5"}

\* line 172: get_close_matches(state, valid_states, n=1, cutoff=0.85), the
\* valid name of highest SequenceMatcher ratio if that ratio reaches 0.85
\* ("gujrat" / "gujarat": 12/13; "xyz", "north goa": none)
get_close_matches(state, valid_states) ==
    IF state \in valid_states THEN <<state>>
    ELSE IF state = "gujrat" /\ "gujarat" \in valid_states THEN <<"gujarat">>
    ELSE <<>>

\* lines 137-180
intelligent_state_cleaning(state_name, valid_states) ==
    IF state_name.isna THEN "unknown"
    ELSE Let(LowerStripCollapse[state_name.text], LAMBDA state :
           IF IsNumber(state) THEN "unknown"
           ELSE IF state \in DOMAIN STATE_NAME_CORRECTIONS
                THEN STATE_NAME_CORRECTIONS[state]
           ELSE IF state \in valid_states THEN state
           ELSE IF state \in DOMAIN CITY_TO_STATE_MAPPING
                THEN CITY_TO_STATE_MAPPING[state]
           ELSE IF get_close_matches(state, valid_states) # <<>>
                THEN get_close_matches(state, valid_states)[1]
           ELSE "unknown")

\* the count columns of each dataset (lines 341-348)
CountColumns ==
    [Enrolment |-> {"age_0_5", "age_5_17", "age_18_greater"},
     Biometric |-> {"bio_age_5_17", "bio_age_17_"},
     Demographic |-> {"demo_age_5_17", "demo_age_17_"}]

TotalColumn ==
    [Enrolment |-> "total_enrolments", Biometric |-> "total_bio_updates",
     Demographic |-> "total_demo_updates"]

\* lines 280-281: six characters, all digits (of the pincodes met)
ValidPincode(pincode) == Len(pincode) = 6 /\ pincode \in {"110001", "1234"}

\* line 311: pd.to_datetime(..., format='%d-%m-%Y', errors='coerce') on the
\* dates met; NaT for a date in another format
NaT == <<>>
ParseDate(date) == IF date = "15-03-2025" THEN <<2025, 3, 15>> ELSE NaT

\* a raw row of a dataset: a state cell and one count column that may be
\* negative; the other columns hold the same values in every row but for
\* the pincode or the date of a defective row
RawRow(dataset, state, pincode, date, count) ==
    [c \in CountColumns[dataset] |->
        IF c \in {"age_0_5", "bio_age_5_17", "demo_age_5_17"} THEN count ELSE 1]
      @@ [state |-> state, district |-> "North  Goa", pincode |-> pincode,
          date |-> date]

RawRows(dataset, states) ==
    {RawRow(dataset, s, "110001", "15-03-2025", 0) : s \in states}
      \cup {RawRow(dataset, s, "1234", "15-03-2025", 0) : s \in states}
      \cup {RawRow(dataset, s, "110001", "2025-03-15", 0) : s \in states}
      \cup {RawRow(dataset, s, "110001", "15-03-2025", -1) : s \in states}

\* DataFrame.drop_duplicates(): the rows that differ from every earlier row
RECURSIVE DropDuplicates(_)
DropDuplicates(tbl) ==
    IF tbl = <<>> THEN <<>>
    ELSE Let(DropDuplicates(SubSeq(tbl, 1, Len(tbl) - 1)), LAMBDA kept :
           IF \E i \in DOMAIN kept : kept[i] = tbl[Len(tbl)]
           THEN kept ELSE Append(kept, tbl[Len(tbl)]))

\* the rows of tbl that satisfy Keep, in order
Select(tbl, Keep(_)) ==
    Let(SortedSeq({i \in DOMAIN tbl : Keep(tbl[i])}), LAMBDA kept :
      MapIdx(LAMBDA k : tbl[kept[k]], Len(kept)))

\* a table that loses its rows of unclear state
DeleteUnclear(df) ==
    Select(MapIdx(LAMBDA i :
                    [df[i] EXCEPT
                       !.state = intelligent_state_cleaning(@, VALID_STATES_UTS)]
                      @@ [state_original |-> df[i].state],
                  Len(df)),
           LAMBDA r : r.state # "unknown")

\* lines 227-229, step 2: the state cell is copied to state_original and
\* replaced by the cleaned name, row by row
CleanStates(df) ==
    MapIdx(LAMBDA i :
             [df[i] EXCEPT
                !.state = intelligent_state_cleaning(@, VALID_STATES_UTS)]
               @@ [state_original |-> df[i].state],
           Len(df))

\* lines 219-334, steps 2 to 7 of intelligent_data_cleaning: the state
\* names, the districts, the rows of invalid pincode, of a negative count
\* and of unreadable date removed, the duplicates removed
CleanRows(df, dataset) ==
    Let(MapIdx(LAMBDA i : [CleanStates(df)[i] EXCEPT
                             !.district = LowerStripCollapse[@]],
               Len(CleanStates(df))), LAMBDA named :
    Let(Select(named, LAMBDA r : ValidPincode(r.pincode)), LAMBDA located :
    Let(Select(located, LAMBDA r : \A c \in CountColumns[dataset] : r[c] >= 0),
        LAMBDA counted :
    Let(Select(MapIdx(LAMBDA i : [counted[i] EXCEPT !.date = ParseDate(@)],
                      Len(counted)),
               LAMBDA r : r.date # NaT), LAMBDA dated :
      DropDuplicates(Drop(dated, "state_original"))))))

\* lines 341-348
Total(r, dataset) ==
    CASE dataset = "Enrolment" -> r.age_0_5 + r.age_5_17 + r.age_18_greater
      [] dataset = "Biometric" -> r.bio_age_5_17 + r.bio_age_17_
      [] dataset = "Demographic" -> r.demo_age_5_17 + r.demo_age_17_

\* lines 336-358, step 8: the total and the calendar columns
AddFeatures(df, dataset) ==
    MapIdx(LAMBDA i :
             df[i] @@ (TotalColumn[dataset] :> Total(df[i], dataset))
                   @@ [year |-> df[i].date[1], month |-> df[i].date[2],
                       quarter |-> (df[i].date[2] + 2) \div 3],
           Len(df))

\* lines 185-362 and 371-377: intelligent_data_cleaning on one dataset;
\* named keeps the table as it is after step 2.
\* line 318 prints df['date'].min().date(), which raises on a table left
\* without rows; the exception ends the script before anything is saved.
CleanDataset(dataset, then) ==
    /\ cleaning.pc = dataset
    /\ \E rows \in {CleanRows(cleaning.raw[dataset], dataset)} :
         IF rows = <<>>
         THEN cleaning' = [cleaning EXCEPT
                             !.pc = "failed",
                             !.named[dataset] = CleanStates(cleaning.raw[dataset])]
         ELSE cleaning' = [cleaning EXCEPT
                             !.pc = then,
                             !.named[dataset] = CleanStates(cleaning.raw[dataset]),
                             !.df[dataset] = AddFeatures(rows, dataset)]
    /\ UNCHANGED <<pc, disk, enrolment, biometric, demographic, features_df,
                   iso_forest, iso_anomalies, zscore_anomalies, monthly_enrol,
                   temporal_anomalies, consensus_anomalies, reports, runner, rounding>>

\* lines 387-417: the three cleaned files, and the rows of unknown state in
\* a file for review when there are any
SaveCleaned ==
    /\ cleaning.pc = "save"
    /\ disk' = [disk EXCEPT
                  !.cleaned_enrolment = File(cleaning.df.Enrolment),
                  !.cleaned_biometric = File(cleaning.df.Biometric),
                  !.cleaned_demographic = File(cleaning.df.Demographic)]
    /\ \E unknown \in
          {[d \in DOMAIN cleaning.df |->
              Select(cleaning.df[d], LAMBDA r : r.state = "unknown")]} :
         cleaning' = [cleaning EXCEPT
                        !.pc = "done",
                        !.review = IF unknown = NoTables THEN NoFile
                                   ELSE File(unknown)]
    /\ UNCHANGED <<pc, enrolment, biometric, demographic, features_df,
                   iso_forest, iso_anomalies, zscore_anomalies, monthly_enrol,
                   temporal_anomalies, consensus_anomalies, reports, runner, rounding>>

\* the raw files before the stage has produced anything: an enrolment row
\* of any kind, alone or followed by a sound row; a biometric row of a
\* valid or an unrecognised state; a demographic row
InitCleaning ==
    /\ \E e \in RawRows("Enrolment", RawStates),
          e2 \in {<<>>} \cup {<<RawRow("Enrolment", s, "110001",
                                      "15-03-2025", 0)>> : s \in RawStates},
          b \in {RawRow("Biometric", s, "110001", "15-03-2025", 0) :
                   s \in {Text("Goa"), Text("xyz")}}
                 \cup {RawRow("Biometric", Text("Goa"), "1234",
                               "15-03-2025", 0)},
          d \in {RawRow("Demographic", Text("ORISSA"), "110001",
                         "15-03-2025", 0)} :
         cleaning = [pc |-> "Enrolment",
                     raw |-> [Enrolment |-> <<e>> \o e2, Biometric |-> <<b>>,
                              Demographic |-> <<d>>],
                     named |-> NoTables, df |-> NoTables,
                     review |-> NoFile]
    /\ disk = [cleaned_enrolment |-> NoFile, cleaned_biometric |-> NoFile,
               cleaned_demographic |-> NoFile, results |-> NoFile]
    /\ pc = "load"
    /\ enrolment = <<>>
    /\ biometric = <<>>
    /\ demographic = <<>>
    /\ features_df = <<>>
    /\ iso_forest = <<>>
    /\ iso_anomalies = <<>>
    /\ zscore_anomalies = <<>>
    /\ monthly_enrol = <<>>
    /\ temporal_anomalies = <<>>
    /\ consensus_anomalies = <<>>
    /\ reports = NoReports
    /\ runner = NoRunner
    /\ rounding = NoRounding

NextCleaning ==
    \/ CleanDataset("Enrolment", "Biometric")
    \/ CleanDataset("Biometric", "Demographic")
    \/ CleanDataset("Demographic", "save")
    \/ SaveCleaned

SpecCleaning == InitCleaning /\ [][NextCleaning]_vars

\* --------------------------------------------- the Phase 3 master runners
\* RUN_PHASE3_ALL.py and RUN_PHASE3_STEPS_6_7_8.py run the step scripts one
\* after the other, each as a child process they wait for.

\* RUN_PHASE3_ALL.py lines 27-32
ScriptsAll ==
    <<"PHASE3_STEP1_trend_prediction.py",
      "PHASE3_STEP2_child_enrolment_gap.py",
      "PHASE3_STEP3_biometric_compliance.py",
      "PHASE3_STEP4_anomaly_detection.py">>

\* RUN_PHASE3_STEPS_6_7_8.py lines 32-36
ScriptsSteps678 ==
    <<"PHASE3_STEP6_state_trend_analysis.py",
      "PHASE3_STEP7_child_enrolment_gap.py",
      "PHASE3_STEP8_biometric_compliance.py">>

\* the step scripts in the directory of the runners (the script of step 8
\* is kept in src/, not in scripts/)
ScriptsDirectory ==
    {"PHASE3_STEP1_trend_prediction.py",
     "PHASE3_STEP2_child_enrolment_gap.py",
     "PHASE3_STEP3_biometric_compliance.py",
     "PHASE3_STEP4_anomaly_detection.py",
     "PHASE3_STEP6_state_trend_analysis.py",
     "PHASE3_STEP7_child_enrolment_gap.py"}

\* the cleaned files each step script reads in the try block at its top
\* (PHASE3_STEP4_anomaly_detection.py lines 41-52, and the same block in
\* the other scripts)
Reads ==
    [s \in {"PHASE3_STEP1_trend_prediction.py",
            "PHASE3_STEP4_anomaly_detection.py",
            "PHASE3_STEP6_state_trend_analysis.py"} |->
        {"cleaned_enrolment", "cleaned_biometric", "cleaned_demographic"}]
      @@ [s \in {"PHASE3_STEP2_child_enrolment_gap.py",
                 "PHASE3_STEP7_child_enrolment_gap.py"} |->
            {"cleaned_enrolment"}]
      @@ [s \in {"PHASE3_STEP3_biometric_compliance.py"} |->
            {"cleaned_enrolment", "cleaned_biometric"}]

\* the exit status of a child process: 0 after the end of the script, after
\* exit() and after sys.exit(); 1 after an uncaught exception; 2 when
\* python cannot open the script file
ExitEnd == 0
ExitException == 1
ExitNoScript == 2

\* a runner at its start
Runner(scripts) ==
    [pc |-> "loop", scripts |-> scripts, k |-> 1, started |-> <<>>,
     results |-> <<>>, child |-> "none", returncode |-> ExitEnd,
     status |-> Null, summary |-> FALSE]

\* lines 36-49: the next script is started with subprocess.run
StartStep ==
    /\ runner.pc = "loop"
    /\ runner' = [runner EXCEPT
                    !.pc = "wait",
                    !.started = Append(@, runner.scripts[runner.k]),
                    !.child = IF runner.scripts[runner.k] \in ScriptsDirectory
                              THEN "load" ELSE "exited",
                    !.returncode = IF runner.scripts[runner.k] \in ScriptsDirectory
                                   THEN ExitEnd ELSE ExitNoScript]
    /\ UNCHANGED <<pc, disk, enrolment, biometric, demographic, features_df,
                   iso_forest, iso_anomalies, zscore_anomalies, monthly_enrol,
                   temporal_anomalies, consensus_anomalies, reports, cleaning, rounding>>

\* the step script cannot read one of its cleaned files
CannotLoad(script) == \E f \in Reads[script] : disk[f] = NoFile

\* PHASE3_STEP4_anomaly_detection.py lines 41-52, the child process: the
\* cleaned files are read; on any error the script prints it and calls
\* exit(), which ends the process with status 0
StepLoad ==
    /\ runner.pc = "wait"
    /\ runner.child = "load"
    /\ runner' = [runner EXCEPT
                    !.child = IF CannotLoad(runner.scripts[runner.k])
                              THEN "exited" ELSE "analysis",
                    !.returncode = ExitEnd]
    /\ UNCHANGED <<pc, disk, enrolment, biometric, demographic, features_df,
                   iso_forest, iso_anomalies, zscore_anomalies, monthly_enrol,
                   temporal_anomalies, consensus_anomalies, reports, cleaning, rounding>>

\* the rest of the step script, the child process: it runs to its end or
\* stops at an exception nothing catches
StepAnalysis ==
    /\ runner.pc = "wait"
    /\ runner.child = "analysis"
    /\ \E code \in {ExitEnd, ExitException} :
         runner' = [runner EXCEPT !.child = "exited", !.returncode = code]
    /\ UNCHANGED <<pc, disk, enrolment, biometric, demographic, features_df,
                   iso_forest, iso_anomalies, zscore_anomalies, monthly_enrol,
                   temporal_anomalies, consensus_anomalies, reports, cleaning, rounding>>

\* the runner that goes on to the next script after a failure
CarryOn(r) ==
    [r EXCEPT !.pc = IF r.k = Len(r.scripts) THEN "summary" ELSE "loop",
              !.k = @ + 1]

\* lines 64-65: "Stopping execution", sys.exit(1)
StopExecution(r) == [r EXCEPT !.pc = "exited", !.status = ExitException]

\* lines 50-65: subprocess.run(check=True) returns, or raises
\* CalledProcessError for a status other than 0; the step is recorded
RecordStep ==
    /\ runner.pc = "wait"
    /\ runner.child = "exited"
    /\ IF runner.returncode = ExitEnd
       THEN runner' = [runner EXCEPT
                         !.results = Append(@, "SUCCESS"),
                         !.child = "none",
                         !.pc = IF runner.k = Len(runner.scripts)
                                THEN "summary" ELSE "loop",
                         !.k = @ + 1]
       ELSE runner' = StopExecution([runner EXCEPT
                                       !.results = Append(@, "FAILED"),
                                       !.child = "none"])
    /\ UNCHANGED <<pc, disk, enrolment, biometric, demographic, features_df,
                   iso_forest, iso_anomalies, zscore_anomalies, monthly_enrol,
                   temporal_anomalies, consensus_anomalies, reports, cleaning, rounding>>

\* lines 67-120: the completion summary, then the end of the runner
PrintSummary ==
    /\ runner.pc = "summary"
    /\ runner' = [runner EXCEPT !.pc = "done", !.summary = TRUE,
                                !.status = ExitEnd]
    /\ UNCHANGED <<pc, disk, enrolment, biometric, demographic, features_df,
                   iso_forest, iso_anomalies, zscore_anomalies, monthly_enrol,
                   temporal_anomalies, consensus_anomalies, reports, cleaning, rounding>>

\* one of the two runners is started; each cleaned file is there or not
InitRunner ==
    /\ runner \in {Runner(ScriptsAll), Runner(ScriptsSteps678)}
    /\ \E present \in SUBSET {"cleaned_enrolment", "cleaned_biometric",
                              "cleaned_demographic"} :
         disk = [f \in DOMAIN CompleteInput |->
                   IF f \in present THEN CompleteInput[f] ELSE NoFile]
    /\ pc = "load"
    /\ enrolment = <<>>
    /\ biometric = <<>>
    /\ demographic = <<>>
    /\ features_df = <<>>
    /\ iso_forest = <<>>
    /\ iso_anomalies = <<>>
    /\ zscore_anomalies = <<>>
    /\ monthly_enrol = <<>>
    /\ temporal_anomalies = <<>>
    /\ consensus_anomalies = <<>>
    /\ reports = NoReports
    /\ cleaning = CleaningOver
    /\ rounding = NoRounding

NextRunner ==
    \/ StartStep
    \/ StepLoad
    \/ StepAnalysis
    \/ RecordStep
    \/ PrintSummary

SpecRunner == InitRunner /\ [][NextRunner]_vars

\* =============================================================== properties
Detectors == {"iso_forest_anomaly", "zscore_anomaly", "temporal_anomaly"}

\* the table holds column col
Has(tbl, col) == tbl # <<>> /\ col \in DOMAIN tbl[1]

\* the number of detectors whose verdict on row r is true
FlagCount(r) == Cardinality({d \in Detectors : r[d]})

TemporalDone == pc \in {"consensus", "characterize", "save", "visualize", "done"}
ConsensusDone == pc \in {"characterize", "save", "visualize", "done"}

\* ----------------------------------------------------------------------- C1
RatioFeatures == {"bio_update_rate", "demo_update_rate", "child_enrol_pct",
                  "youth_enrol_pct", "adult_enrol_pct"}

\* C1: every derived ratio feature of every region is a finite number, and
\* it is exactly 0 for a region whose total_enrolments is 0, whether the
\* numerator is 0 or not.
C1_RatiosFiniteAndZeroWithoutEnrolments ==
    \A i \in DOMAIN features_df : \A f \in RatioFeatures :
       /\ IsFinite(features_df[i][f])
       /\ features_df[i].total_enrolments = 0 => features_df[i][f] = Num(0)

\* ----------------------------------------------------------------------- C2
\* C2: the agreement count of a region is the number of its true detector
\* verdicts, a number in 0..3.
C2_CountIsNumberOfTrueVerdicts ==
    \A i \in DOMAIN features_df :
       "anomaly_count" \in DOMAIN features_df[i] =>
          /\ features_df[i].anomaly_count = FlagCount(features_df[i])
          /\ features_df[i].anomaly_count \in 0..3

\* one region is flagged by all three detectors and another by none
C2_ThreeAndNone ==
    /\ Has(features_df, "anomaly_count")
    /\ \E i, j \in DOMAIN features_df :
          /\ FlagCount(features_df[i]) = 3 /\ features_df[i].anomaly_count = 3
          /\ FlagCount(features_df[j]) = 0 /\ features_df[j].anomaly_count = 0

\* ----------------------------------------------------------------------- C3
\* master and subset agree with the rule "in the subset iff at least two
\* detectors flag the region"
TwoAgree(master, subset) ==
    /\ \A i \in DOMAIN master :
          /\ master[i].consensus_anomaly = (FlagCount(master[i]) >= 2)
          /\ (master[i].state \in States(subset)) = (FlagCount(master[i]) >= 2)
    /\ States(subset) \subseteq States(master)

\* C3: a region is consensus-flagged, and is in the consensus subset, iff at
\* least two of the three detectors flag it; a region flagged by exactly one
\* stays in the master table and is absent from the subset.  This holds of
\* the tables in memory and of the saved files.
C3_ConsensusIffTwoAgree ==
    /\ ConsensusDone => TwoAgree(features_df, consensus_anomalies)
    /\ disk.results # NoFile =>
          TwoAgree(disk.results[1].STEP9_anomaly_detection_complete,
                   disk.results[1].STEP9_consensus_anomalies_HIGH_PRIORITY)

\* the saved files hold a region with one verdict, outside the subset, and
\* a region with two, inside it
C3_OneVerdictStaysOut ==
    /\ pc = "done"
    /\ \E master \in {disk.results[1].STEP9_anomaly_detection_complete} :
       \E subset \in {disk.results[1].STEP9_consensus_anomalies_HIGH_PRIORITY} :
       \E i, j \in DOMAIN master :
          /\ FlagCount(master[i]) = 1
          /\ master[i].state \notin States(subset)
          /\ FlagCount(master[j]) = 2
          /\ master[j].state \in States(subset)

\* ----------------------------------------------------------------------- C4
\* C4: every consensus-flagged region has a non-empty characterization
\* string, whatever its feature values (equal to the percentiles, undefined).
C4_ConsensusRegionsAreCharacterized ==
    \A i \in DOMAIN features_df :
       ("anomaly_characterization" \in DOMAIN features_df[i]
          /\ features_df[i].consensus_anomaly) =>
          /\ features_df[i].anomaly_characterization # <<>>
          /\ \A k \in DOMAIN features_df[i].anomaly_characterization :
                features_df[i].anomaly_characterization[k] # ""

\* a consensus-flagged region none of whose features is extreme
C4_FallbackLabel ==
    /\ Has(features_df, "anomaly_characterization")
    /\ \E i \in DOMAIN features_df :
          /\ features_df[i].consensus_anomaly
          /\ features_df[i].anomaly_characterization =
                <<"Complex multivariate pattern">>

\* ----------------------------------------------------------------------- C5
\* C5: a second run on the same input files builds the master table and the
\* consensus table of the first run (whose files are still on disk when the
\* second run reaches step "save"): same rows, order, verdicts, scores,
\* counts and characterizations.
C5_SecondRunBuildsTheSameTables ==
    (pc = "save" /\ disk.results # NoFile) =>
       /\ features_df = disk.results[1].STEP9_anomaly_detection_complete
       /\ consensus_anomalies =
             disk.results[1].STEP9_consensus_anomalies_HIGH_PRIORITY

\* the second run is about to save a consensus region the forest flagged
C5_SecondRunFlagged ==
    /\ pc = "save"
    /\ disk.results # NoFile
    /\ \E i \in DOMAIN consensus_anomalies :
          consensus_anomalies[i].iso_forest_anomaly

\* ----------------------------------------------------------------------- C6
\* the periods in which the input holds rows of state st
Periods(st) ==
    {ToPeriodM(enrolment[i].date) :
       i \in {j \in DOMAIN enrolment : enrolment[j].state = st}}

\* the enrolments of state st in period m
PeriodTotal(st, m) ==
    SumIdx(LAMBDA i : IF enrolment[i].state = st
                         /\ ToPeriodM(enrolment[i].date) = m
                      THEN enrolment[i].total_enrolments ELSE 0,
           Len(enrolment))

\* C6: the earliest observed period of a region is never a Temporal Anomaly
\* Event: no change is computed against another region's series.
C6_EarliestPeriodIsNoEvent ==
    \A i \in DOMAIN temporal_anomalies :
       \E m \in Periods(temporal_anomalies[i].state) :
          m < temporal_anomalies[i].year_month

\* a region's first period follows another region's last period from which
\* it differs by more than the spike threshold, and is no event
C6_NoChangeAcrossRegions ==
    /\ pc = "done"
    /\ \E i \in 2..Len(monthly_enrol) :
          /\ monthly_enrol[i - 1].state # monthly_enrol[i].state
          /\ IsSpike(PctChange(monthly_enrol[i - 1].total_enrolments,
                               monthly_enrol[i].total_enrolments))
          /\ ~monthly_enrol[i].temporal_anomaly
          /\ \A e \in DOMAIN temporal_anomalies :
                temporal_anomalies[e].state # monthly_enrol[i].state

\* ----------------------------------------------------------------------- C7
\* state st has no enrolments in its observed period before m and some in m
ZeroToNonZero(st, m) ==
    /\ m \in Periods(st)
    /\ PeriodTotal(st, m) > 0
    /\ \E p \in Periods(st) :
          /\ p < m
          /\ \A q \in Periods(st) : ~(p < q /\ q < m)
          /\ PeriodTotal(st, p) = 0

\* C7: a period with enrolments that follows a period of the same region
\* with none is a Temporal Anomaly Event: the step goes on, the row is kept
\* with its infinite change, and it is in the events table.
C7_ZeroToNonZeroIsEvent ==
    TemporalDone =>
       \A st \in States(enrolment) : \A m \in Periods(st) :
          ZeroToNonZero(st, m) =>
             /\ \E i \in DOMAIN monthly_enrol :
                   /\ monthly_enrol[i].state = st
                   /\ monthly_enrol[i].year_month = m
                   /\ monthly_enrol[i].mom_change = Inf
             /\ \E e \in DOMAIN temporal_anomalies :
                   /\ temporal_anomalies[e].state = st
                   /\ temporal_anomalies[e].year_month = m

\* a run that ended with such a transition in its input
C7_ZeroToNonZeroSeen ==
    /\ pc = "done"
    /\ \E st \in States(enrolment) : \E m \in Periods(st) : ZeroToNonZero(st, m)

\* ----------------------------------------------------------------------- C8
\* C8: the temporal verdict of a region is true iff the events table has a
\* row of that region, and every event's region is in the master table with
\* a true temporal verdict.
C8_TemporalVerdictIffEvent ==
    TemporalDone =>
       /\ \A i \in DOMAIN features_df :
             features_df[i].temporal_anomaly =
                (\E e \in DOMAIN temporal_anomalies :
                    temporal_anomalies[e].state = features_df[i].state)
       /\ \A e \in DOMAIN temporal_anomalies :
             \E i \in DOMAIN features_df :
                /\ features_df[i].state = temporal_anomalies[e].state
                /\ features_df[i].temporal_anomaly

\* two regions have events and a third one, with enrolment rows, has none
C8_EventsOfTwoRegions ==
    /\ pc = "done"
    /\ \E e, f \in DOMAIN temporal_anomalies :
          temporal_anomalies[e].state # temporal_anomalies[f].state
    /\ \E i \in DOMAIN features_df :
          /\ features_df[i].state \in States(enrolment)
          /\ ~features_df[i].temporal_anomaly

\* ----------------------------------------------------------------------- C9
\* the deviation column of every tracked feature
ZScoreOf == [bio_update_rate |-> "bio_rate_zscore",
             demo_update_rate |-> "demo_rate_zscore",
             child_enrol_pct |-> "child_pct_zscore",
             total_enrolments |-> "enrol_zscore"]

\* every region has the same, defined, value of feature c
ZeroVariance(c) ==
    /\ \A i \in DOMAIN features_df : features_df[i][c] = features_df[1][c]
    /\ c # "total_enrolments" => IsFinite(features_df[1][c])

\* C9: a feature with zero variance across the regions gives every region
\* the recorded deviation 0 (not NaN, not infinite), and flags no region.
C9_ZeroVarianceDeviatesByZero ==
    Has(features_df, "zscore_anomaly") =>
       \A c \in DOMAIN ZScoreOf :
          ZeroVariance(c) =>
             \A i \in DOMAIN features_df :
                /\ features_df[i][ZScoreOf[c]] = Num(0)
                /\ ~ExceedsThreshold(features_df[i][ZScoreOf[c]])

\* ---------------------------------------------------------------------- C10
\* C10: the statistical verdict of a region is true iff the absolute z-score
\* of some tracked feature is strictly greater than 3 (the recorded value is
\* the square of the z-score: strictly greater than 9); a z-score of
\* exactly 3 does not flag, nor does an undefined one.
C10_FlagIffBeyondThree ==
    \A i \in DOMAIN features_df :
       "zscore_anomaly" \in DOMAIN features_df[i] =>
          features_df[i].zscore_anomaly =
             (\E c \in DOMAIN ZScoreOf :
                 /\ IsFinite(features_df[i][ZScoreOf[c]])
                 /\ features_df[i][ZScoreOf[c]].n
                       > 9 * features_df[i][ZScoreOf[c]].d)

\* a region whose largest z-score is exactly 3, unflagged
C10_ExactlyThree ==
    /\ Has(features_df, "zscore_anomaly")
    /\ \E i \in DOMAIN features_df :
          /\ \E c \in DOMAIN ZScoreOf : features_df[i][ZScoreOf[c]] = Num(9)
          /\ ~features_df[i].zscore_anomaly

\* ---------------------------------------------------------------------- C11
\* the tier a printed label stands for, whatever its case and decoration
TierOfLabel ==
    [l \in {"0 (Normal)", "NORMAL"} |-> "Normal"]
      @@ [l \in {"1 (Low)", "LOW RISK", "LOW"} |-> "Low"]
      @@ [l \in {"2 (Medium)", "MEDIUM RISK", "MEDIUM"} |-> "Medium"]
      @@ [l \in {"3 (High)", "HIGH"} |-> "High"]
      @@ [l \in {"CRITICAL RISK", "CRITICAL"} |-> "Critical"]

PriorityTier == <<"Normal", "Low", "Medium", "High">>

\* every <<agreement count, label>> pair some producer has put out
Labelled ==
    {<<reports.chart5[k][1], reports.chart5[k][2]>> :
        k \in DOMAIN reports.chart5}
      \cup (IF reports.summary = <<>> THEN {}
            ELSE {<<reports.summary.risk_distribution[k][1],
                    reports.summary.risk_distribution[k][2]>> :
                     k \in DOMAIN reports.summary.risk_distribution}
                   \cup {<<reports.summary.top_10_iso[k].anomaly_count,
                           reports.summary.top_10_iso[k].risk>> :
                           k \in DOMAIN reports.summary.top_10_iso})
      \cup {<<reports.cards[k].anomaly_count, reports.cards[k].risk_level>> :
              k \in DOMAIN reports.cards}

\* C11: the priority tier is one function of the agreement count, 0 Normal,
\* 1 Low, 2 Medium, 3 High, and every producer (the chart labels of the
\* framework, the results summary, the profile cards) gives a count that
\* tier.
C11_EveryProducerGivesTheSameTier ==
    \A pair \in Labelled : TierOfLabel[pair[2]] = PriorityTier[pair[1] + 1]

\* ---------------------------------------------------------------------- C12
\* the density (forest) score of a listed region, from the master table
ScoreOfState(st) ==
    (CHOOSE r \in {features_df[i] : i \in DOMAIN features_df} :
        r.state = st).iso_forest_score

\* descending agreement count, then ascending density score
OrderedByCountThenScore(listing) ==
    \A i, j \in DOMAIN listing :
       i < j =>
          \/ listing[i].anomaly_count > listing[j].anomaly_count
          \/ /\ listing[i].anomaly_count = listing[j].anomaly_count
             /\ ~Gt(ScoreOfState(listing[i].state),
                    ScoreOfState(listing[j].state))

\* C12: wherever the consensus-flagged regions are listed (step 9.5 of the
\* framework, the results summary), they are in descending order of
\* agreement count and, among equal counts, ascending order of density
\* score.
C12_ListingsByCountThenScore ==
    Has(features_df, "consensus_anomaly") =>
       /\ OrderedByCountThenScore(reports.listing)
       /\ reports.summary # <<>> =>
             OrderedByCountThenScore(reports.summary.consensus)

\* ---------------------------------------------------------------------- C13
\* C13: in the saved results, the density-only, the statistical-only and the
\* consensus table each hold exactly the rows of the master table whose
\* flag is true, with the columns and the values those rows have in the
\* master table.
C13_SavedSubsetsAreMasterRows ==
    disk.results # NoFile =>
       \E master \in {disk.results[1].STEP9_anomaly_detection_complete} :
          /\ disk.results[1].STEP9_isolation_forest_anomalies
                = Filter(master, "iso_forest_anomaly")
          /\ disk.results[1].STEP9_zscore_anomalies
                = Filter(master, "zscore_anomaly")
          /\ disk.results[1].STEP9_consensus_anomalies_HIGH_PRIORITY
                = Filter(master, "consensus_anomaly")

\* ---------------------------------------------------------------------- C14
InputFiles == DOMAIN RequiredColumns

\* some input file lacks a required column or its region key
MissingColumnOrKey ==
    \E f \in InputFiles :
       disk[f] # NoFile /\ \E c \in RequiredColumns[f] : LacksColumn(disk[f][1], c)

\* no detector has run: no fitted forest, no verdict or score column in the
\* master table, no subset table, no per-period table
NoDetectorExecuted ==
    /\ iso_forest = <<>>
    /\ \A i \in DOMAIN features_df :
          DOMAIN features_df[i]
             \cap (Detectors \cup {"iso_forest_score", "anomaly_count"}
                     \cup {ZScoreOf[c] : c \in DOMAIN ZScoreOf}) = {}
    /\ iso_anomalies = <<>>
    /\ zscore_anomalies = <<>>
    /\ monthly_enrol = <<>>
    /\ temporal_anomalies = <<>>
    /\ consensus_anomalies = <<>>
    /\ pc \in {"load", "features", "exited", "failed"}

\* C14: if a required column or the region key is missing from one of the
\* three input tables, the run aborts before any detector executes and no
\* result table is written.
C14_MissingColumnAbortsBeforeDetectors ==
    MissingColumnOrKey =>
       /\ NoDetectorExecuted
       /\ disk.results = NoFile

\* a run aborted by the aggregation, the region key missing from the
\* biometric table
C14_AbortedWithoutKey ==
    /\ disk.cleaned_biometric # NoFile
    /\ LacksColumn(disk.cleaned_biometric[1], "state")
    /\ pc = "failed"
    /\ features_df = <<>>

\* ---------------------------------------------------------------------- C15
\* the regions of an input file
Regions(f) == States(disk[f][1])

AllRegions ==
    Regions("cleaned_enrolment") \cup Regions("cleaned_biometric")
       \cup Regions("cleaned_demographic")

\* the raw counts the master table takes from each input file
RawCounts ==
    [cleaned_enrolment |-> EnrolCols, cleaned_biometric |-> BioCols,
     cleaned_demographic |-> DemoCols]

\* tbl has exactly one row for each region of the inputs, and in it a 0 for
\* each raw count of a file the region is absent from
OneRowPerRegion(tbl) ==
    /\ {tbl[i].state : i \in DOMAIN tbl} = AllRegions
    /\ \A i, j \in DOMAIN tbl : tbl[i].state = tbl[j].state => i = j
    /\ \A i \in DOMAIN tbl : \A f \in InputFiles :
          tbl[i].state \notin Regions(f) =>
             \A c \in RawCounts[f] : tbl[i][c] = 0

\* the master table has been built from complete inputs
MasterBuilt ==
    /\ pc \notin {"load", "features", "exited"}
    /\ ~MissingColumnOrKey

\* C15: every region of at least one input table has exactly one row in the
\* master table, with 0 (not null) for each raw count of a table it is
\* absent from; the row stays through every later step, whatever its
\* denominator, its variance or its previous-period value, and is in the
\* saved master table.
C15_OneMasterRowPerRegion ==
    MasterBuilt =>
       /\ OneRowPerRegion(features_df)
       /\ disk.results # NoFile =>
             OneRowPerRegion(disk.results[1].STEP9_anomaly_detection_complete)

\* a finished run with a region present only in the biometric table (zero
\* denominator) and a region whose enrolments fall to zero in a later
\* period
C15_UpdateOnlyRegionKept ==
    /\ pc = "done"
    /\ MasterBuilt
    /\ \E i \in DOMAIN features_df :
          /\ features_df[i].state \notin Regions("cleaned_enrolment")
          /\ features_df[i].state \in Regions("cleaned_biometric")
          /\ features_df[i].total_enrolments = 0
          /\ features_df[i].total_bio_updates > 0
    /\ \E i \in DOMAIN features_df : features_df[i].total_enrolments > 0

\* ---------------------------------------------------------------------- C16
\* a region the temporal detector does not cover: it has no enrolment row,
\* hence no per-period series
NotCovered(st) == st \notin Regions("cleaned_enrolment")

\* C16: a region without a per-period series has the temporal verdict false
\* (a boolean, not a missing value) and an agreement count that is the
\* number of true verdicts of the other two detectors.
C16_UncoveredRegionIsNotFlagged ==
    MasterBuilt =>
       \A i \in DOMAIN features_df :
          NotCovered(features_df[i].state) =>
             /\ "temporal_anomaly" \in DOMAIN features_df[i] =>
                   ~features_df[i].temporal_anomaly
             /\ "anomaly_count" \in DOMAIN features_df[i] =>
                   features_df[i].anomaly_count
                      = AsInt(features_df[i].iso_forest_anomaly)
                          + AsInt(features_df[i].zscore_anomaly)

\* a region present only in the update tables, flagged by another detector
\* and counted, while some covered region has a temporal event
C16_UncoveredRegionCounted ==
    /\ MasterBuilt
    /\ Has(features_df, "anomaly_count")
    /\ \E i \in DOMAIN features_df :
          /\ NotCovered(features_df[i].state)
          /\ ~features_df[i].temporal_anomaly
          /\ features_df[i].anomaly_count >= 1
    /\ \E i \in DOMAIN features_df : features_df[i].temporal_anomaly

\* ---------------------------------------------------------------------- C17
CleanedFiles == {"cleaned_enrolment", "cleaned_biometric", "cleaned_demographic"}

\* C17: every region identifier in a cleaned table written by the cleaning
\* stage is one of the 36 valid state / union-territory names; a missing,
\* numeric or unrecognised region string is not passed on.
C17_CleanedRegionsAreValid ==
    \A f \in CleanedFiles :
       disk[f] # NoFile =>
          \A i \in DOMAIN disk[f][1] :
             disk[f][1][i].state \in VALID_STATES_UTS

\* ---------------------------------------------------------------------- C18
\* the characterized features: column, 'high' reason, 'low' reason
Tracked ==
    {<<"bio_update_rate", "Extremely high bio update rate",
       "Extremely low bio update rate">>,
     <<"demo_update_rate", "Extremely high demo update rate",
       "Extremely low demo update rate">>,
     <<"child_enrol_pct", "Unusually high child enrolment %",
       "Unusually low child enrolment %">>,
     <<"total_enrolments", "Very large population", "Very small population">>}

\* the parts of the characterization of row i
Parts(i) ==
    {features_df[i].anomaly_characterization[k] :
       k \in DOMAIN features_df[i].anomaly_characterization}

\* the value of row i in column c, as a float
Value(i, c) == FeatureColumn(features_df, c)[i]

\* with q the <<95th, 5th>> percentiles of each tracked feature t: the value
\* of row i is strictly above the one / strictly below the other
Above95(q, i, t) == Gt(Value(i, t[1]), q[t][1])
Below05(q, i, t) == Lt(Value(i, t[1]), q[t][2])

\* C18: the characterization of a region holds a feature's 'high' reason iff
\* the region's value is strictly above the 95th percentile of that feature,
\* its 'low' reason iff strictly below the 5th percentile, never both; it is
\* the generic 'Complex multivariate pattern' iff no tracked feature is
\* outside the band.
C18_ReasonsIffOutsideBand ==
    Has(features_df, "anomaly_characterization") =>
       \E q \in {[t \in Tracked |->
                    <<Quantile(FeatureColumn(features_df, t[1]), 95, 100),
                      Quantile(FeatureColumn(features_df, t[1]), 5, 100)>>]} :
       \A i \in DOMAIN features_df :
          /\ \A t \in Tracked :
                /\ t[2] \in Parts(i) <=> Above95(q, i, t)
                /\ t[3] \in Parts(i) <=> Below05(q, i, t)
                /\ ~(t[2] \in Parts(i) /\ t[3] \in Parts(i))
          /\ "Complex multivariate pattern" \in Parts(i)
                <=> \A t \in Tracked : ~Above95(q, i, t) /\ ~Below05(q, i, t)
          /\ "Complex multivariate pattern" \in Parts(i)
                => Parts(i) = {"Complex multivariate pattern"}

\* one table with a 'high' reason, a 'low' reason and the generic label,
\* and a region that sits exactly on a 95th percentile without the reason
C18_HighLowAndGeneric ==
    /\ Has(features_df, "anomaly_characterization")
    /\ \E i \in DOMAIN features_df : \E t \in Tracked : t[2] \in Parts(i)
    /\ \E i \in DOMAIN features_df : \E t \in Tracked : t[3] \in Parts(i)
    /\ \E i \in DOMAIN features_df :
          /\ Parts(i) = {"Complex multivariate pattern"}
          /\ \E t \in Tracked :
                Value(i, t[1])
                   = Quantile(FeatureColumn(features_df, t[1]), 95, 100)

\* ---------------------------------------------------------------------- C19
\* the score columns the statistical detector writes
DeviationColumns == {ZScoreOf[c] : c \in DOMAIN ZScoreOf}

\* C19: besides the flag, the statistical detector writes for every region
\* one score that is the maximum of the region's per-feature absolute
\* standardized deviations: one of its score columns is, in every row, at
\* least each per-feature deviation of the row.
C19_OneScoreIsTheMaximumDeviation ==
    Has(features_df, "zscore_anomaly") =>
       \E score \in DeviationColumns :
          \A i \in DOMAIN features_df :
             \A c \in DeviationColumns :
                ~Gt(features_df[i][c], features_df[i][score])

\* ---------------------------------------------------------------------- C20
\* p is the observed period of state st just before period m
PreviousPeriod(st, p, m) ==
    /\ p \in Periods(st)
    /\ p < m
    /\ \A q \in Periods(st) : ~(p < q /\ q < m)

\* period m of state st is in the events table
IsEvent(st, m) ==
    \E e \in DOMAIN temporal_anomalies :
       /\ temporal_anomalies[e].state = st
       /\ temporal_anomalies[e].year_month = m

\* C20: for consecutive observed periods of one region with previous value
\* p > 0 and current value c, the current period is a Temporal Anomaly Event
\* iff |c - p| * 100 > 50 * p, for rises and falls alike: a change of
\* exactly 50% is no event, a fall to 0 is one.
C20_EventIffChangeBeyondHalf ==
    TemporalDone =>
       \A st \in States(enrolment) : \A m \in Periods(st) :
          \A p \in Periods(st) :
             PreviousPeriod(st, p, m) /\ PeriodTotal(st, p) > 0 =>
                (IsEvent(st, m)
                   <=> Abs(PeriodTotal(st, m) - PeriodTotal(st, p)) * 100
                          > 50 * PeriodTotal(st, p))

\* a finished run in which one region falls by exactly 50% (no event) and
\* another rises by more than 50% (an event)
C20_HalfFallAndRise ==
    /\ pc = "done"
    /\ \E st \in States(enrolment) : \E m, p \in Periods(st) :
          /\ PreviousPeriod(st, p, m)
          /\ PeriodTotal(st, p) > 0
          /\ (PeriodTotal(st, p) - PeriodTotal(st, m)) * 100
                = 50 * PeriodTotal(st, p)
          /\ ~IsEvent(st, m)
    /\ \E st \in States(enrolment) : \E m, p \in Periods(st) :
          /\ PreviousPeriod(st, p, m)
          /\ PeriodTotal(st, p) > 0
          /\ PeriodTotal(st, m) > PeriodTotal(st, p)
          /\ IsEvent(st, m)

\* ---------------------------------------------------------------------- C21
Rows(tbl) == {tbl[i] : i \in DOMAIN tbl}

\* C21: a run on the same input rows in another order (regions and periods
\* in any order) gives every region the feature values, detector flags,
\* agreement count and characterization of the run before it, whose master
\* file is still on disk when the later run reaches step "save".
C21_ReorderedRunBuildsTheSameRows ==
    (pc = "save" /\ disk.results # NoFile) =>
       Rows(features_df) = Rows(disk.results[1].STEP9_anomaly_detection_complete)

\* a later run about to save, read from an enrolment file that has a row of
\* the second state before a row of the first and, for one state, a later
\* month before an earlier one; one region has a temporal event
C21_ReorderedRunSeen ==
    /\ pc = "save"
    /\ disk.results # NoFile
    /\ \E i, j \in DOMAIN disk.cleaned_enrolment[1] :
          /\ i < j
          /\ disk.cleaned_enrolment[1][i].state > disk.cleaned_enrolment[1][j].state
    /\ \E i, j \in DOMAIN disk.cleaned_enrolment[1] :
          /\ i < j
          /\ disk.cleaned_enrolment[1][i].state = disk.cleaned_enrolment[1][j].state
          /\ disk.cleaned_enrolment[1][i].date[1] > disk.cleaned_enrolment[1][j].date[1]
    /\ \E i \in DOMAIN features_df : features_df[i].temporal_anomaly

\* ---------------------------------------------------------------------- C22
\* C22: a master runner starts the step scripts in the listed order, starts
\* a step only after the step before it was recorded SUCCESS, and once a
\* step is recorded FAILED starts no later step and exits with status 1
\* without the completion summary.
C22_RunnerStopsAtFirstFailure ==
    runner.pc # "none" =>
       /\ \A i \in DOMAIN runner.started :
             /\ runner.started[i] = runner.scripts[i]
             /\ i > 1 => (i - 1 \in DOMAIN runner.results
                            /\ runner.results[i - 1] = "SUCCESS")
       /\ \A i \in DOMAIN runner.results :
             runner.results[i] = "FAILED" =>
                /\ Len(runner.started) = i
                /\ Len(runner.results) = i
                /\ runner.pc = "exited"
                /\ runner.status = 1
                /\ ~runner.summary
       /\ runner.summary =>
             \A i \in DOMAIN runner.scripts :
                i \in DOMAIN runner.results /\ runner.results[i] = "SUCCESS"

\* a runner stopped by its third step after two steps recorded SUCCESS
C22_ThirdStepFailed ==
    /\ runner.pc = "exited"
    /\ runner.results = <<"SUCCESS", "SUCCESS", "FAILED">>
    /\ Len(runner.scripts) = 4

\* ---------------------------------------------------------------------- C23
\* the state cells that are missing, numeric or no name of a state, a
\* union territory or a city
UnclearStates == {NA, Text("100000"), Text("12.5"), Text("xyz")}

\* C23: the state-name cleaning step deletes no row: the table after the
\* step has the rows of the raw table, each with a state that is a valid
\* state/UT name or 'unknown', and 'unknown' for every row whose state cell
\* was missing, numeric or unrecognised.
C23_StateCleaningKeepsEveryRow ==
    \A d \in DOMAIN cleaning.named :
       cleaning.named[d] # <<>> =>
          /\ Len(cleaning.named[d]) = Len(cleaning.raw[d])
          /\ \A i \in DOMAIN cleaning.raw[d] :
                /\ cleaning.named[d][i].state_original = cleaning.raw[d][i].state
                /\ cleaning.named[d][i].state \in VALID_STATES_UTS \cup {"unknown"}
                /\ cleaning.raw[d][i].state \in UnclearStates
                      => cleaning.named[d][i].state = "unknown"

\* the step has run on a table of two rows, the first of unclear state and
\* the second of a state whose name it corrected
C23_UnclearAndCorrectedRowsKept ==
    /\ Len(cleaning.named.Enrolment) = 2
    /\ cleaning.raw.Enrolment[1].state \in UnclearStates
    /\ cleaning.named.Enrolment[1].state = "unknown"
    /\ cleaning.raw.Enrolment[2].state = Text("ORISSA")
    /\ cleaning.named.Enrolment[2].state = "odisha"

\* ---------------------------------------------------------------------- C24
\* a derived feature of some region is NaN or infinite
DerivedFeatureNotFinite ==
    \E i \in DOMAIN features_df : \E f \in RatioFeatures :
       ~IsFinite(features_df[i][f])

\* C24: if a derived feature is NaN or infinite after the feature
\* computation, the run fails before a detector executes: it goes no
\* further than the step after the features, and no detector leaves a
\* verdict, a score, a subset table or a saved result.
C24_NotFiniteFeatureStopsTheRun ==
    DerivedFeatureNotFinite =>
       /\ pc \in {"isolation_forest", "failed"}
       /\ \A i \in DOMAIN features_df :
             DOMAIN features_df[i]
                \cap (Detectors \cup {"iso_forest_score", "anomaly_count"}
                        \cup {ZScoreOf[c] : c \in DOMAIN ZScoreOf}) = {}
       /\ iso_anomalies = <<>>
       /\ zscore_anomalies = <<>>
       /\ temporal_anomalies = <<>>
       /\ consensus_anomalies = <<>>
       /\ disk.results = NoFile

\* ---------------------------------------------------------------------- C25
\* the master table holds a single region, of finite features
SingleRegion ==
    /\ pc # "features"
    /\ Len(features_df) = 1
    /\ ~DerivedFeatureNotFinite

\* C25: when the regions are too few to fit the density model, a single
\* region for one, the run reports that the data do not suffice: it goes no
\* further than the density step, and emits no density verdict or score, no
\* agreement count and no result table.
C25_SingleRegionIsRefused ==
    SingleRegion =>
       /\ pc \in {"isolation_forest", "failed"}
       /\ DOMAIN features_df[1]
             \cap {"iso_forest_anomaly", "iso_forest_score", "anomaly_count"} = {}
       /\ consensus_anomalies = <<>>
       /\ disk.results = NoFile

\* ---------------------------------------------------------------------- C26
\* C26: once the feature step has produced a region's feature values, and
\* once a detector has written its verdict and score, no later step changes
\* them: every step keeps every value the master table holds, row by row
\* and column by column.
C26_WrittenValuesStay ==
    [][\A i \in DOMAIN features_df :
          /\ i \in DOMAIN features_df'
          /\ \A c \in DOMAIN features_df[i] :
                /\ c \in DOMAIN features_df'[i]
                /\ features_df'[i][c] = features_df[i][c]]_vars

\* every step has run on a table of several regions, one of them flagged by
\* the forest and one by the deviations
C26_AllStagesWritten ==
    /\ pc = "done"
    /\ Len(features_df) > 1
    /\ "anomaly_characterization" \in DOMAIN features_df[1]
    /\ \E i \in DOMAIN features_df : features_df[i].iso_forest_anomaly
    /\ \E i \in DOMAIN features_df : features_df[i].zscore_anomaly

\* ---------------------------------------------------------------------- C27
\* the scores the forest gave, and 0, which is above every score
Cutoffs == {features_df[i].iso_forest_score : i \in DOMAIN features_df}
              \cup {Num(0)}

\* C27: the density verdict agrees with the density score: there is one
\* cutoff such that a region is flagged exactly when its score is below it,
\* and no unflagged region has a score at or below that of a flagged one.
C27_FlaggedIffScoreBelowCutoff ==
    Has(features_df, "iso_forest_anomaly") =>
       /\ \E cutoff \in Cutoffs : \A i \in DOMAIN features_df :
             features_df[i].iso_forest_anomaly
                <=> Lt(features_df[i].iso_forest_score, cutoff)
       /\ \A i, j \in DOMAIN features_df :
             features_df[i].iso_forest_anomaly
               /\ ~features_df[j].iso_forest_anomaly
                => Lt(features_df[i].iso_forest_score,
                      features_df[j].iso_forest_score)

\* one region is flagged, and the unflagged ones have two different scores
C27_FlaggedBelowTwoScores ==
    /\ Has(features_df, "iso_forest_anomaly")
    /\ \E i, j, l \in DOMAIN features_df :
          /\ features_df[i].iso_forest_anomaly
          /\ ~features_df[j].iso_forest_anomaly
          /\ ~features_df[l].iso_forest_anomaly
          /\ Lt(features_df[j].iso_forest_score, features_df[l].iso_forest_score)

\* ---------------------------------------------------------------------- C28
\* the steps recorded so far whose script could not load a cleaned file
RecordedWithoutInput ==
    {i \in DOMAIN runner.results :
        /\ runner.scripts[i] \in ScriptsDirectory
        /\ CannotLoad(runner.scripts[i])}

\* C28: if a step script cannot load its cleaned input data, the master
\* runner does not record the step as SUCCESS: it records FAILED and starts
\* no later step.
C28_LoadFailureIsRecordedFailed ==
    runner.pc # "none" =>
       \A i \in RecordedWithoutInput :
          /\ runner.results[i] = "FAILED"
          /\ Len(runner.started) = i

\* ---------------------------------------------------------------------- C29
\* state st has no enrolments in period m and none in the observed period
\* p just before it
ZeroToZero(st, p, m) ==
    /\ PreviousPeriod(st, p, m)
    /\ PeriodTotal(st, p) = 0
    /\ PeriodTotal(st, m) = 0

\* C29: a transition between consecutive observed periods whose previous
\* and current values are both 0 is never a Temporal Anomaly Event and
\* raises no error: the temporal step does not fail, and the period is in
\* the per-period table with a false verdict.
C29_ZeroToZeroIsNoEvent ==
    (\A c \in {"state", "date", "total_enrolments"} :
        ~LacksColumn(enrolment, c)) =>
       \A st \in States(enrolment) : \A m, p \in Periods(st) :
          ZeroToZero(st, p, m) =>
             /\ ~IsEvent(st, m)
             /\ Has(features_df, "zscore_anomaly") => pc # "failed"
             /\ TemporalDone =>
                   \E r \in DOMAIN monthly_enrol :
                      /\ monthly_enrol[r].state = st
                      /\ monthly_enrol[r].year_month = m
                      /\ ~monthly_enrol[r].temporal_anomaly

\* the temporal step has run on a region with two empty periods in a row,
\* and has found an event in another region
C29_ZeroToZeroSeen ==
    /\ TemporalDone
    /\ \E st \in States(enrolment) : \E m, p \in Periods(st) :
          ZeroToZero(st, p, m)
    /\ temporal_anomalies # <<>>

\* ---------------------------------------------------------------------- C30
\* C30: with the population standard deviation, when the master table
\* holds 10 regions or fewer no region is flagged by the statistical
\* detector at threshold 3, whatever the feature values.
C30_NoFlagUpToTenRegions ==
    Has(features_df, "zscore_anomaly") /\ Len(features_df) <= 10 =>
       \A i \in DOMAIN features_df : ~features_df[i].zscore_anomaly

====
